---- MODULE Spec2Model ----
(***************************************************************************)
(* A model of the tealish compiler (src/tealish/__init__.py): the line     *)
(* cursor, the recursive-descent parse pass that builds the syntax tree    *)
(* and the scopes, the scope and slot allocator, and the generation pass   *)
(* that emits labelled stack-machine assembly.                             *)
(*                                                                         *)
(* Source lines are strings, matched as the node patterns match them.      *)
(* The syntax tree is kept as the sequence of its nodes in document order  *)
(* (each with its parent), a composite node being closed by an "End"       *)
(* entry at which the part of its visit() that follows its children runs.  *)
(***************************************************************************)
EXTENDS Integers, Sequences, FiniteSets, TLC

(* ------------------------------------------------------------------ *)
(* Bounds of the model                                                  *)
(* ------------------------------------------------------------------ *)
\* the longest source text explored under Spec, in lines
MaxLines == 5
\* the longest source text explored under SpecLoop, in lines
MaxLoopLines == 4
\* the run of a compiled program is followed while the values on its stack
\* stay within MaxValue and the stack within MaxStack entries
MaxValue == 4
MaxStack == 6
\* the longest source text explored under SpecFunc, in lines
MaxFuncLines == 5
\* the longest source text explored under SpecPragma, in lines
MaxPragmaLines == 4
\* the longest source text explored under SpecTxn, in lines
MaxTxnLines == 6
\* the longest source text explored under SpecSwitch, in lines
MaxSwitchLines == 7
\* the longest source text explored under SpecWhile, in lines
MaxWhileLines == 7
\* the longest source text explored under SpecIf, in lines
MaxIfLines == 6
\* the longest source text explored under SpecReturn, in lines
MaxReturnLines == 5
\* the longest source text explored under SpecGroup, in lines
MaxGroupLines == 6
\* the longest source text explored under SpecParse, in lines
MaxParseLines == 5
\* the longest source text explored under SpecNames, in lines
MaxNameLines == 4
\* the lines explored under SpecFull after its fixed opening lines
MaxTailLines == 3

(* ------------------------------------------------------------------ *)
(* Strings                                                              *)
(* ------------------------------------------------------------------ *)
Lower == {"a","b","c","d","e","f","g","h","i","j","k","l","m",
          "n","o","p","q","r","s","t","u","v","w","x","y","z"}
Upper == {"A","B","C","D","E","F","G","H","I","J","K","L","M",
          "N","O","P","Q","R","S","T","U","V","W","X","Y","Z"}
Digit == {"0","1","2","3","4","5","6","7","8","9"}
IdentChar == Lower \cup Upper \cup Digit \cup {"_"}

\* s[i:] and s[:i] of python, positions counted from 1 here
Drop(s, n) == SubSeq(s, n + 1, Len(s))
Take(s, n) == SubSeq(s, 1, n)
\* s[i:i+1]: the empty string beyond the end
CharAt(s, i) == IF i >= 1 /\ i <= Len(s) THEN SubSeq(s, i, i) ELSE ""

\* str.startswith / str.endswith / the `in` operator on strings
StartsWith(s, p) == Len(s) >= Len(p) /\ Take(s, Len(p)) = p
EndsWith(s, p) == Len(s) >= Len(p) /\ Drop(s, Len(s) - Len(p)) = p
StrContains(s, p) ==
    \E i \in 1..(Len(s) - Len(p) + 1) : SubSeq(s, i, i + Len(p) - 1) = p

\* position of the first occurrence of p in s, 0 when there is none
StrFind(s, p) ==
    IF StrContains(s, p)
    THEN CHOOSE i \in 1..(Len(s) - Len(p) + 1) :
            /\ SubSeq(s, i, i + Len(p) - 1) = p
            /\ \A j \in 1..(i - 1) : SubSeq(s, j, j + Len(p) - 1) # p
    ELSE 0

\* position of the last occurrence of p in s, 0 when there is none
StrFindLast(s, p) ==
    IF StrContains(s, p)
    THEN CHOOSE i \in 1..(Len(s) - Len(p) + 1) :
            /\ SubSeq(s, i, i + Len(p) - 1) = p
            /\ \A j \in (i + 1)..(Len(s) - Len(p) + 1) :
                   SubSeq(s, j, j + Len(p) - 1) # p
    ELSE 0

\* the number of characters of s, from position i on, that lie in class C
\* (the greedy match of a character class repeated)
RECURSIVE SpanLen(_, _, _)
SpanLen(s, i, C) ==
    IF i > Len(s) \/ CharAt(s, i) \notin C THEN 0
    ELSE 1 + SpanLen(s, i + 1, C)

\* s is First Rest* to its end
IsIdent(s, First, Rest) ==
    /\ Len(s) >= 1
    /\ CharAt(s, 1) \in First
    /\ SpanLen(s, 2, Rest) = Len(s) - 1

DigitVal(c) ==
    CASE c = "0" -> 0 [] c = "1" -> 1 [] c = "2" -> 2 [] c = "3" -> 3
      [] c = "4" -> 4 [] c = "5" -> 5 [] c = "6" -> 6 [] c = "7" -> 7
      [] c = "8" -> 8 [] c = "9" -> 9

IsDigits(s) == Len(s) >= 1 /\ SpanLen(s, 1, Digit) = Len(s)

\* int(s) for a string of decimal digits
RECURSIVE ParseInt(_)
ParseInt(s) ==
    IF Len(s) = 0 THEN 0
    ELSE 10 * ParseInt(Take(s, Len(s) - 1)) + DigitVal(CharAt(s, Len(s)))

\* s.split(sep) for a separator that is present or not
RECURSIVE StrSplit(_, _)
StrSplit(s, sep) ==
    LET i == StrFind(s, sep) IN
    IF i = 0 THEN <<s>>
    ELSE <<Take(s, i - 1)>> \o StrSplit(Drop(s, i + Len(sep) - 1), sep)

\* str.strip() of blanks
RECURSIVE StrStrip(_)
StrStrip(s) ==
    IF Len(s) > 0 /\ CharAt(s, 1) = " " THEN StrStrip(Drop(s, 1))
    ELSE IF Len(s) > 0 /\ CharAt(s, Len(s)) = " " THEN StrStrip(Take(s, Len(s) - 1))
    ELSE s

(* ------------------------------------------------------------------ *)
(* Node patterns: Node.__init__ matches the line against the class's    *)
(* pattern and binds the named groups.  A matcher yields NoMatch or the  *)
(* groups; has_expression says whether the optional group took part.    *)
(* ------------------------------------------------------------------ *)
NoMatch == [ok |-> FALSE]

\* length of the leading First Rest* of s, 0 when s does not start with one
IdentLen(s, First, Rest) ==
    IF Len(s) >= 1 /\ CharAt(s, 1) \in First THEN 1 + SpanLen(s, 2, Rest) ELSE 0

\* IntDeclaration.pattern and BytesDeclaration.pattern:
\*   <kw> (?P<name>[a-z][a-zA-Z0-9_]*)( = (?P<expression>.*))?$
Match_Declaration(kw, line) ==
    LET rest == Drop(line, Len(kw) + 1)
        n    == IdentLen(rest, Lower, IdentChar)
        tail == Drop(rest, n)
    IN  IF ~StartsWith(line, kw \o " ") \/ n = 0 THEN NoMatch
        ELSE IF tail = ""
             THEN [ok |-> TRUE, name |-> Take(rest, n),
                   has_expression |-> FALSE, expression |-> ""]
        ELSE IF StartsWith(tail, " = ")
             THEN [ok |-> TRUE, name |-> Take(rest, n),
                   has_expression |-> TRUE, expression |-> Drop(tail, 3)]
        ELSE NoMatch

\* Const.pattern:
\*   const (?P<type>\bint\b|\bbytes\b) (?P<name>[A-Z][a-zA-Z0-9_]*) = (?P<expression>.*)$
Match_Const(line) ==
    LET r1   == Drop(line, 6)
        ty   == IF StartsWith(r1, "int ") THEN "int"
                ELSE IF StartsWith(r1, "bytes ") THEN "bytes" ELSE ""
        r2   == Drop(r1, Len(ty) + 1)
        n    == IdentLen(r2, Upper, IdentChar)
        tail == Drop(r2, n)
    IN  IF ~StartsWith(line, "const ") \/ ty = "" \/ n = 0
           \/ ~StartsWith(tail, " = ")
        THEN NoMatch
        ELSE [ok |-> TRUE, type |-> ty, name |-> Take(r2, n),
              expression |-> Drop(tail, 3)]

\* Jump.pattern: jump (?P<block_name>.*)$
Match_Jump(line) ==
    IF ~StartsWith(line, "jump ") THEN NoMatch
    ELSE [ok |-> TRUE, block_name |-> Drop(line, 5)]

\* Exit.pattern: exit\((?P<expression>.*)\)$
Match_Exit(line) ==
    IF ~(StartsWith(line, "exit(") /\ EndsWith(line, ")")) THEN NoMatch
    ELSE [ok |-> TRUE, expression |-> SubSeq(line, 6, Len(line) - 1)]

\* FunctionCall.pattern: (?P<expression>[a-zA-Z_0-9]+\(.*\))$
Match_FunctionCall(line) ==
    LET n == SpanLen(line, 1, IdentChar) IN
    IF n = 0 \/ CharAt(line, n + 1) # "(" \/ ~EndsWith(line, ")") THEN NoMatch
    ELSE [ok |-> TRUE, expression |-> line]

\* the test of LineStatement.consume for a bare call: re.match(r"[a-zA-Z_0-9]+\(.*\)")
\* (a prefix match: text may follow the last parenthesis)
LooksLikeCall(line) ==
    LET n == SpanLen(line, 1, IdentChar) IN
    n > 0 /\ CharAt(line, n + 1) = "(" /\ StrContains(Drop(line, n + 1), ")")

\* Return.pattern: return ?(?P<args>.*?)?$
Match_Return(line) ==
    IF ~StartsWith(line, "return") THEN NoMatch
    ELSE [ok |-> TRUE,
          args |-> IF StartsWith(line, "return ") THEN Drop(line, 7)
                   ELSE Drop(line, 6)]

\* the names of an assignment: [s.strip() for s in self.names.split(",")]
SplitNames(names) ==
    LET parts == StrSplit(names, ",") IN
    [i \in 1..Len(parts) |-> StrStrip(parts[i])]

\* Assignment.pattern:
\*   (?P<names>([a-z_][a-zA-Z0-9_]*,?\s*)+) = (?P<expression>.*)$
Match_Assignment(line) ==
    LET i     == StrFind(line, " = ")
        names == Take(line, i - 1)
        parts == SplitNames(names)
    IN  IF i = 0 THEN NoMatch
        ELSE IF \A k \in 1..Len(parts) :
                    IsIdent(parts[k], Lower \cup {"_"}, IdentChar)
             THEN [ok |-> TRUE, names |-> names, expression |-> Drop(line, i + 2)]
        ELSE NoMatch

\* Comment.pattern: #\s*(?P<comment>.*)$
Match_Comment(line) ==
    IF ~StartsWith(line, "#") THEN NoMatch
    ELSE [ok |-> TRUE, comment |-> StrStrip(Drop(line, 1))]

\* TealVersion.pattern: #pragma version (?P<version>\d+)$
Match_TealVersion(line) ==
    IF StartsWith(line, "#pragma version ") /\ IsDigits(Drop(line, 16))
    THEN [ok |-> TRUE, version |-> Drop(line, 16)]
    ELSE NoMatch

\* Block.pattern: block (?P<name>[a-zA-Z_0-9]+):$
Match_Block(line) ==
    LET rest == Drop(line, 6)
        n    == SpanLen(rest, 1, IdentChar)
    IN  IF StartsWith(line, "block ") /\ n > 0 /\ Drop(rest, n) = ":"
        THEN [ok |-> TRUE, name |-> Take(rest, n)]
        ELSE NoMatch

\* ArgsList: re.findall(arg_pattern, string) with
\*   arg_pattern = (?P<arg_name>[a-z][a-z_0-9]*): (?P<arg_type>int|bytes)
\* for an argument text of the shape the Func pattern is written for:
\* "name: type" items separated by ", "; an item of another shape yields
\* no pair
ArgPair(item) ==
    LET i == StrFind(item, ": ") IN
    IF i > 1 /\ IsIdent(Take(item, i - 1), Lower, Lower \cup Digit \cup {"_"})
       /\ (StartsWith(Drop(item, i + 1), "int") \/ StartsWith(Drop(item, i + 1), "bytes"))
    THEN <<  <<Take(item, i - 1),
               IF StartsWith(Drop(item, i + 1), "int") THEN "int" ELSE "bytes">>  >>
    ELSE << >>

RECURSIVE ArgPairs(_)
ArgPairs(items) ==
    IF Len(items) = 0 THEN << >>
    ELSE ArgPair(Head(items)) \o ArgPairs(Tail(items))

ArgsList(string) == ArgPairs(StrSplit(string, ", "))

\* Func.pattern: func (?P<name>[a-zA-Z_0-9]+)\((?P<args>.*)\)(?P<returns>.*):$
Match_Func(line) ==
    LET rest == Drop(line, 5)
        n    == SpanLen(rest, 1, IdentChar)
        r2   == Drop(rest, n)
        j    == StrFindLast(r2, ")")
    IN  IF StartsWith(line, "func ") /\ n > 0 /\ StartsWith(r2, "(")
           /\ j > 0 /\ EndsWith(r2, ":")
        THEN [ok |-> TRUE, name |-> Take(rest, n),
              args |-> ArgsList(SubSeq(r2, 2, j - 1)),
              returns |-> SubSeq(r2, j + 1, Len(r2) - 1)]
        ELSE NoMatch

\* ForStatement.pattern:
\*   for (?P<var>[a-z_][a-zA-Z0-9_]*) in (?P<start>[a-zA-Z0-9_]+):(?P<end>[a-zA-Z0-9_]+):$
Match_For(line) ==
    LET rest == Drop(line, 4)
        n    == IdentLen(rest, Lower \cup {"_"}, IdentChar)
        r2   == Drop(rest, n)
        r3   == Drop(r2, 4)
        a    == SpanLen(r3, 1, IdentChar)
        r4   == Drop(r3, a + 1)
        b    == SpanLen(r4, 1, IdentChar)
    IN  IF StartsWith(line, "for ") /\ n > 0 /\ StartsWith(r2, " in ")
           /\ a > 0 /\ CharAt(r3, a + 1) = ":" /\ b > 0 /\ Drop(r4, b) = ":"
        THEN [ok |-> TRUE, var |-> Take(rest, n), start |-> Take(r3, a),
              end |-> Take(r4, b)]
        ELSE NoMatch

(* ------------------------------------------------------------------ *)
(* State                                                                *)
(* ------------------------------------------------------------------ *)
\* InnerTxnFieldSetter.pattern:
\*   (?P<field_name>.*?)(\[(?P<index>\d\d?)\])?: (?P<expression>.*)
\* the field name is the shortest prefix after which comes `: `, or an
\* index of one or two digits in brackets and then `: `; index is "" for
\* a setter without one
SetterTail(line, k) ==
    LET rest == Drop(line, k) IN
    IF StartsWith(rest, ": ")
    THEN [ok |-> TRUE, index |-> "", expression |-> Drop(rest, 2)]
    ELSE IF CharAt(rest, 1) = "[" /\ CharAt(rest, 2) \in Digit
              /\ CharAt(rest, 3) \in Digit /\ SubSeq(rest, 4, 6) = "]: "
              /\ Len(rest) >= 6
    THEN [ok |-> TRUE, index |-> SubSeq(rest, 2, 3), expression |-> Drop(rest, 6)]
    ELSE IF CharAt(rest, 1) = "[" /\ CharAt(rest, 2) \in Digit
              /\ Len(rest) >= 5 /\ SubSeq(rest, 3, 5) = "]: "
    THEN [ok |-> TRUE, index |-> SubSeq(rest, 2, 2), expression |-> Drop(rest, 5)]
    ELSE [ok |-> FALSE]

Match_InnerTxnFieldSetter(line) ==
    LET ks == {k \in 0..Len(line) : SetterTail(line, k).ok} IN
    IF ks = {} THEN [ok |-> FALSE]
    ELSE LET k == CHOOSE m \in ks : \A o \in ks : m <= o
             t == SetterTail(line, k)
         IN  [ok |-> TRUE, field_name |-> Take(line, k), index |-> t.index,
              expression |-> t.expression]

\* Switch.pattern: switch (?P<expression>.*):$
Match_Switch(line) ==
    IF StartsWith(line, "switch ") /\ Len(line) >= 8 /\ EndsWith(line, ":")
    THEN [ok |-> TRUE, expression |-> SubSeq(line, 8, Len(line) - 1)]
    ELSE NoMatch

\* SwitchOption.pattern: (?P<expression>.*): (?P<block_name>.*)
\* the first group is greedy, it ends at the last `: ` of the line
Match_SwitchOption(line) ==
    LET k == StrFindLast(line, ": ") IN
    IF k > 0
    THEN [ok |-> TRUE, expression |-> Take(line, k - 1), block_name |-> Drop(line, k + 1)]
    ELSE NoMatch

\* SwitchElse.pattern: else: (?P<block_name>.*)
Match_SwitchElse(line) ==
    IF StartsWith(line, "else: ")
    THEN [ok |-> TRUE, block_name |-> Drop(line, 6)]
    ELSE NoMatch

\* the groups shared by the patterns of if, elif and while, rest being the
\* line between the keyword and the colon: ((?P<modifier>not) )?(?P<condition>.*)
\* modifier is "" for None
Match_Condition(rest) ==
    IF StartsWith(rest, "not ")
    THEN [ok |-> TRUE, modifier |-> "not", condition |-> Drop(rest, 4)]
    ELSE [ok |-> TRUE, modifier |-> "", condition |-> rest]

\* WhileStatement.pattern: while ((?P<modifier>not) )?(?P<condition>.*):$
Match_While(line) ==
    IF StartsWith(line, "while ") /\ Len(line) >= 7 /\ EndsWith(line, ":")
    THEN Match_Condition(SubSeq(line, 7, Len(line) - 1))
    ELSE NoMatch

\* IfStatement.pattern: if ((?P<modifier>not) )?(?P<condition>.*):$
Match_If(line) ==
    IF StartsWith(line, "if ") /\ Len(line) >= 4 /\ EndsWith(line, ":")
    THEN Match_Condition(SubSeq(line, 4, Len(line) - 1))
    ELSE NoMatch

\* Elif.pattern: elif ((?P<modifier>not) )?(?P<condition>.*):
\* without a `$`: the condition ends at the last colon of the line and
\* what follows that colon is ignored
Match_Elif(line) ==
    LET k == StrFindLast(line, ":") IN
    IF StartsWith(line, "elif ") /\ k >= 6
    THEN Match_Condition(SubSeq(line, 6, k - 1))
    ELSE NoMatch

VARIABLES
    source_lines,       \* TealishCompiler.source_lines: the lines read so far
    line_no,            \* TealishCompiler.line_no: lines consumed
    nodes,              \* every Node built, in document order
    scopes,             \* every Scope built; a node names its scope by index
    frames,             \* the consume() calls in progress, innermost last
    phase,              \* "init", "parse", "compile", "done", "error"
    error,              \* the exception that ended the run
    output,             \* TealishCompiler.output with source_map: emitted lines
    max_slot,           \* TealishCompiler.max_slot
    conditional_count,  \* TealishCompiler.conditional_count
    level,              \* TealishCompiler.level
    pc,                 \* the node the generation pass visits next
    stack,              \* the evaluation stack of a run of the output
    ip                  \* the output line that run executes next

vars == <<source_lines, line_no, nodes, scopes, frames, phase, error,
          output, max_slot, conditional_count, level, pc, stack, ip>>

NoError == [kind |-> "", msg |-> "", line_no |-> 0]

(* ------------------------------------------------------------------ *)
(* Dictionaries (python dict): functions over the set of their keys     *)
(* ------------------------------------------------------------------ *)
EmptyDict == [k \in {} |-> 0]

\* d[k] = v
DictPut(d, k, v) == [n \in DOMAIN d \cup {k} |-> IF n = k THEN v ELSE d[n]]

\* del d[k]
DictDel(d, k) == [n \in DOMAIN d \ {k} |-> d[n]]

\* d.update(e): the entries of e replace those of d
DictUpdate(d, e) ==
    [n \in DOMAIN d \cup DOMAIN e |-> IF n \in DOMAIN e THEN e[n] ELSE d[n]]

(* ------------------------------------------------------------------ *)
(* Scope                                                                *)
(* ------------------------------------------------------------------ *)
\* the default slot_range of Scope.__init__
SlotRangeMin == 0
SlotRangeMax == 200
\* the length of find_slot's used_slots list
UsedSlotsLen == 255

\* Scope.__init__(name, parent, slot_range=None); parent 0 is None
Scope(scs, name, parent) ==
    [parent     |-> parent,
     slots      |-> EmptyDict,
     slot_range |-> <<SlotRangeMin, SlotRangeMax>>,
     consts     |-> EmptyDict,
     blocks     |-> EmptyDict,
     functions  |-> EmptyDict,
     name       |-> IF parent # 0 /\ scs[parent].name # ""
                    THEN scs[parent].name \o "__" \o name
                    ELSE name]

\* Node.get_scopes: the current scope first, then its ancestors outward
RECURSIVE get_scopes(_, _)
get_scopes(scs, s) ==
    IF scs[s].parent # 0 THEN <<s>> \o get_scopes(scs, scs[s].parent)
    ELSE <<s>>

\* the loop `for s in self.get_scopes(): d.update(s.<table>)`
RECURSIVE UpdateEach(_, _, _, _)
UpdateEach(d, scs, chain, table) ==
    IF Len(chain) = 0 THEN d
    ELSE UpdateEach(DictUpdate(d, scs[Head(chain)][table]), scs, Tail(chain), table)

\* Node.get_slots
get_slots(scs, s) == UpdateEach(EmptyDict, scs, get_scopes(scs, s), "slots")

\* Node.get_blocks
get_blocks(scs, s) == UpdateEach(EmptyDict, scs, get_scopes(scs, s), "blocks")

\* Node.get_scope
get_scope(scs, s) ==
    [slots     |-> UpdateEach(EmptyDict, scs, get_scopes(scs, s), "slots"),
     consts    |-> UpdateEach(EmptyDict, scs, get_scopes(scs, s), "consts"),
     blocks    |-> UpdateEach(EmptyDict, scs, get_scopes(scs, s), "blocks"),
     functions |-> UpdateEach(EmptyDict, scs, get_scopes(scs, s), "functions")]

\* Node.get_const; a missing name is a KeyError
get_const(scs, s, name) ==
    LET consts == UpdateEach(EmptyDict, scs, get_scopes(scs, s), "consts") IN
    IF name \in DOMAIN consts
    THEN [found |-> TRUE, type |-> consts[name][1], value |-> consts[name][2]]
    ELSE [found |-> FALSE]

\* a lookup that answers for every name, declared or not
get_var_any_name(scs, s, name) ==
    LET slots == get_slots(scs, s) IN
    IF name \in DOMAIN slots
    THEN [found |-> TRUE, slot |-> slots[name][1], type |-> slots[name][2]]
    ELSE [found |-> TRUE, slot |-> 0, type |-> "int"]

\* Node.get_var: [slot, type] or (None, None)
get_var(scs, s, name) ==
    LET slots == get_slots(scs, s) IN
    IF name \in DOMAIN slots
    THEN [found |-> TRUE, slot |-> slots[name][1], type |-> slots[name][2]]
    ELSE [found |-> FALSE]

\* Node.get_block: the block node or None
get_block(scs, s, name) ==
    LET blocks == get_blocks(scs, s) IN
    IF name \in DOMAIN blocks THEN [found |-> TRUE, node |-> blocks[name]]
    ELSE [found |-> FALSE]

SetMin(S) == CHOOSE m \in S : \A o \in S : m <= o
IntMax(a, b) == IF a >= b THEN a ELSE b

\* a first-fit scan that skips only the slots of the scope itself
find_slot_own_scope(scs, s) ==
    LET slots == scs[s].slots
        used  == {slots[k][1] : k \in DOMAIN slots}
        min   == scs[s].slot_range[1]
        max   == scs[s].slot_range[2]
        free  == {i \in 0..(UsedSlotsLen - 1) :
                     i \notin used /\ i >= min /\ i <= max}
    IN  IF \E u \in used : u >= UsedSlotsLen
        THEN [err |-> "IndexError: list assignment index out of range"]
        ELSE IF free = {} THEN [err |-> "No available slots!"]
        ELSE [err |-> "", slot |-> SetMin(free)]

\* a first-fit scan whose range leaves out its upper end
find_slot_below_max(scs, s) ==
    LET slots == get_slots(scs, s)
        used  == {slots[k][1] : k \in DOMAIN slots}
        min   == scs[s].slot_range[1]
        max   == scs[s].slot_range[2]
        free  == {i \in 0..(UsedSlotsLen - 1) :
                     i \notin used /\ i >= min /\ i < max}
    IN  IF \E u \in used : u >= UsedSlotsLen
        THEN [err |-> "IndexError: list assignment index out of range"]
        ELSE IF free = {} THEN [err |-> "No available slots!"]
        ELSE [err |-> "", slot |-> SetMin(free)]

\* Node.find_slot
find_slot(scs, s) ==
    LET slots == get_slots(scs, s)
        used  == {slots[k][1] : k \in DOMAIN slots}
        min   == scs[s].slot_range[1]
        max   == scs[s].slot_range[2]
        free  == {i \in 0..(UsedSlotsLen - 1) :
                     i \notin used /\ i >= min /\ i <= max}
    IN  IF \E u \in used : u >= UsedSlotsLen
        THEN [err |-> "IndexError: list assignment index out of range"]
        ELSE IF free = {} THEN [err |-> "No available slots!"]
        ELSE [err |-> "", slot |-> SetMin(free)]

\* a declaration that records the slot just given as the high-water mark
declare_var_last_slot(scs, ms, s, name, type) ==
    LET found == get_var(scs, s, name).found
        fs    == IF StrContains(scs[s].name, "func__")
                 THEN [err |-> "", slot |-> ms + 1]
                 ELSE find_slot(scs, s)
    IN  IF found
        THEN [err |-> "Redefinition of variable", scopes |-> scs, max_slot |-> ms]
        ELSE IF fs.err # ""
        THEN [err |-> fs.err, scopes |-> scs, max_slot |-> ms]
        ELSE [err      |-> "",
              slot     |-> fs.slot,
              max_slot |-> fs.slot,
              scopes   |-> [scs EXCEPT ![s].slots =
                               DictPut(@, name, <<fs.slot, type>>)]]

\* a declaration that does not look the name up first
declare_var_unchecked(scs, ms, s, name, type) ==
    LET fs == IF StrContains(scs[s].name, "func__")
              THEN [err |-> "", slot |-> ms + 1]
              ELSE find_slot(scs, s)
    IN  IF fs.err # ""
        THEN [err |-> fs.err, scopes |-> scs, max_slot |-> ms]
        ELSE [err      |-> "",
              slot     |-> fs.slot,
              max_slot |-> IntMax(ms, fs.slot),
              scopes   |-> [scs EXCEPT ![s].slots =
                               DictPut(@, name, <<fs.slot, type>>)]]

\* Node.declare_var: the scopes and the high-water mark after the call,
\* or the exception it raises
declare_var(scs, ms, s, name, type) ==
    LET found == get_var(scs, s, name).found
        fs    == IF StrContains(scs[s].name, "func__")
                 THEN [err |-> "", slot |-> ms + 1]
                 ELSE find_slot(scs, s)
    IN  IF found
        THEN [err |-> "Redefinition of variable", scopes |-> scs, max_slot |-> ms]
        ELSE IF fs.err # ""
        THEN [err |-> fs.err, scopes |-> scs, max_slot |-> ms]
        ELSE [err      |-> "",
              slot     |-> fs.slot,
              max_slot |-> IntMax(ms, fs.slot),
              scopes   |-> [scs EXCEPT ![s].slots =
                               DictPut(@, name, <<fs.slot, type>>)]]

\* a removal that empties the table of the active scope
del_var_clear_scope(scs, s, name) ==
    IF name \in DOMAIN scs[s].slots
    THEN [scs EXCEPT ![s].slots = EmptyDict]
    ELSE scs

\* Node.del_var
del_var(scs, s, name) ==
    IF name \in DOMAIN scs[s].slots
    THEN [scs EXCEPT ![s].slots = DictDel(@, name)]
    ELSE scs

(* ------------------------------------------------------------------ *)
(* Nodes                                                                *)
(* ------------------------------------------------------------------ *)
\* Node.__init__: the fields of every node; ln is compiler.line_no at the
\* time of construction, p the parent (0 is None)
Node(nds, kind, line, ln, p) ==
    [kind          |-> kind,
     line          |-> line,
     line_no       |-> ln,
     parent        |-> p,
     current_scope |-> IF p # 0 THEN nds[p].current_scope ELSE 0]

\* setattr(self, name, value) for the groups of the match
WithGroups(node, m) ==
    [n \in DOMAIN node \cup (DOMAIN m \ {"ok"}) |->
        IF n \in DOMAIN m THEN m[n] ELSE node[n]]

\* a search that keeps the outermost ancestor of the kind
RECURSIVE find_parent_outermost(_, _, _)
find_parent_outermost(nds, p, kind) ==
    IF p = 0 THEN 0
    ELSE LET up == find_parent_outermost(nds, nds[p].parent, kind) IN
         IF up # 0 THEN up
         ELSE IF nds[p].kind = kind THEN p ELSE 0

\* Node.find_parent, from the parent p of the node on
RECURSIVE find_parent(_, _, _)
find_parent(nds, p, kind) ==
    IF p = 0 THEN 0
    ELSE IF nds[p].kind = kind THEN p
    ELSE find_parent(nds, nds[p].parent, kind)

\* self.nodes of node i: the children add_child appended, in order
Children(nds, i) ==
    {j \in 1..Len(nds) : nds[j].parent = i /\ nds[j].kind # "End"}

SetMax(S) == CHOOSE m \in S : \A o \in S : m >= o

\* isinstance(node, InlineStatement): every statement class but Block
IsInlineStatement(kind) == kind # "Block"

\* the isinstance test of Node.add_child against possible_child_nodes
ChildAllowed(parentKind, childKind) ==
    CASE parentKind \in {"Program", "Block", "InnerGroup"} -> TRUE
      [] parentKind \in {"Func", "ForStatement", "WhileStatement", "IfThen", "Elif", "Else"}
            -> IsInlineStatement(childKind)
      [] OTHER -> FALSE

PatternError == "Pattern does not match"

\* a constructor's outcome: the node, or the ParseError it raises
Built(nds, kind, line, ln, p, m) ==
    IF m.ok THEN [err |-> "", node |-> WithGroups(Node(nds, kind, line, ln, p), m)]
    ELSE [err |-> "ParseError", msg |-> PatternError, at |-> 0]

\* LineStatement.consume, after consume_line: the class chosen for the
\* line and its constructor
LineStatement_consume(nds, line, ln, p) ==
    IF StartsWith(line, "#pragma") THEN
        IF ln # 1
        THEN [err |-> "ParseError", at |-> ln,
              msg |-> "Teal version must be specified in the first line of the program"]
        ELSE Built(nds, "TealVersion", line, ln, p, Match_TealVersion(line))
    ELSE IF StartsWith(line, "#") THEN
        Built(nds, "Comment", line, ln, p, Match_Comment(line))
    ELSE IF line = "" THEN
        Built(nds, "Blank", line, ln, p, [ok |-> TRUE])
    ELSE IF StartsWith(line, "const ") THEN
        Built(nds, "Const", line, ln, p, Match_Const(line))
    ELSE IF StartsWith(line, "int ") THEN
        Built(nds, "IntDeclaration", line, ln, p, Match_Declaration("int", line))
    ELSE IF StartsWith(line, "bytes ") THEN
        Built(nds, "BytesDeclaration", line, ln, p, Match_Declaration("bytes", line))
    ELSE IF StartsWith(line, "jump ") THEN
        Built(nds, "Jump", line, ln, p, Match_Jump(line))
    ELSE IF StartsWith(line, "return") THEN
        \* Return.__init__
        IF ~Match_Return(line).ok
        THEN [err |-> "ParseError", msg |-> PatternError, at |-> 0]
        ELSE IF find_parent(nds, p, "Func") = 0
        THEN [err |-> "ParseError", at |-> ln,
              msg |-> "return should only be used in a function"]
        ELSE Built(nds, "Return", line, ln, p, Match_Return(line))
    ELSE IF StrContains(line, " = ") THEN
        Built(nds, "Assignment", line, ln, p, Match_Assignment(line))
    ELSE IF StartsWith(line, "break") THEN
        \* Break.__init__
        IF line # "break"
        THEN [err |-> "ParseError", msg |-> PatternError, at |-> 0]
        ELSE IF find_parent(nds, p, "WhileStatement") = 0
        THEN [err |-> "ParseError", at |-> ln,
              msg |-> "break should only be used in a while loop"]
        ELSE [err |-> "",
              node |-> WithGroups(Node(nds, "Break", line, ln, p),
                          [parent_loop |-> find_parent(nds, p, "WhileStatement")])]
    ELSE IF StartsWith(line, "exit(") THEN
        Built(nds, "Exit", line, ln, p, Match_Exit(line))
    ELSE IF LooksLikeCall(line) THEN
        Built(nds, "FunctionCall", line, ln, p, Match_FunctionCall(line))
    ELSE [err |-> "ParseError", at |-> ln, msg |-> "Unexpected line statement"]

\* a block constructor that leaves the registration to the generation pass
Block_init_unregistered(nds, scs, line, ln, p) ==
    LET m     == Match_Block(line)
        scope == nds[p].current_scope
        label == scs[scope].name
                   \o (IF scs[scope].name # "" THEN "__" ELSE "") \o m.name
    IN  IF ~m.ok THEN [err |-> "ParseError", msg |-> PatternError, at |-> 0]
        ELSE [err    |-> "",
              scopes |-> Append(scs, Scope(scs, m.name, scope)),
              node   |-> [WithGroups(Node(nds, "Block", line, ln, p),
                                     [name |-> m.name, label |-> label])
                            EXCEPT !.current_scope = Len(scs) + 1]]

\* Block.__init__: the block registers itself in the scope it is met in,
\* takes its label from that scope's name and opens its own scope
Block_init(nds, scs, line, ln, p) ==
    LET m     == Match_Block(line)
        self  == Len(nds) + 1
        scope == nds[p].current_scope
        scs1  == [scs EXCEPT ![scope].blocks = DictPut(@, m.name, self)]
        label == scs[scope].name
                   \o (IF scs[scope].name # "" THEN "__" ELSE "") \o m.name
    IN  IF ~m.ok THEN [err |-> "ParseError", msg |-> PatternError, at |-> 0]
        ELSE [err    |-> "",
              scopes |-> Append(scs1, Scope(scs1, m.name, scope)),
              node   |-> [WithGroups(Node(nds, "Block", line, ln, p),
                                     [name |-> m.name, label |-> label])
                            EXCEPT !.current_scope = Len(scs1) + 1]]

\* the types of the values a call of a func leaves on the stack, as the
\* func's line declares them after its arguments (the group `returns` of
\* the pattern); none declared is taken as one value of any type
ResultTypes(returns) ==
    LET declared == StrStrip(returns)
        parts    == StrSplit(declared, ",")
    IN  IF declared = "" THEN <<"any">>
        ELSE [i \in 1..Len(parts) |-> StrStrip(parts[i])]

\* Func.__init__
Func_init(nds, scs, line, ln, p) ==
    LET m     == Match_Func(line)
        self  == Len(nds) + 1
        scope == nds[p].current_scope
        scs1  == [scs EXCEPT ![scope].functions = DictPut(@, m.name, self)]
        label == scs[scope].name \o "__func__" \o m.name
    IN  IF ~m.ok THEN [err |-> "ParseError", msg |-> PatternError, at |-> 0]
        ELSE [err    |-> "",
              scopes |-> Append(scs1, Scope(scs1, "func__" \o m.name, scope)),
              node   |-> [WithGroups(Node(nds, "Func", line, ln, p),
                                     [name |-> m.name, args |-> m.args,
                                      result_types |-> ResultTypes(m.returns),
                                      label |-> label])
                            EXCEPT !.current_scope = Len(scs1) + 1]]

\* ForStatement.__init__
ForStatement_init(nds, cc, line, ln, p) ==
    LET m == Match_For(line) IN
    IF ~m.ok THEN [err |-> "ParseError", msg |-> PatternError, at |-> 0]
    ELSE [err  |-> "",
          node |-> WithGroups(Node(nds, "ForStatement", line, ln, p),
                      [var |-> m.var, start |-> m.start, end |-> m.end,
                       conditional_index |-> cc,
                       start_label |-> "l" \o ToString(cc) \o "_for",
                       end_label   |-> "l" \o ToString(cc) \o "_end"])]

(* ------------------------------------------------------------------ *)
(* The parse pass                                                       *)
(* ------------------------------------------------------------------ *)
Init ==
    /\ source_lines = << >>
    /\ line_no = 0
    /\ nodes = << >>
    /\ scopes = << >>
    /\ frames = << >>
    /\ phase = "init"
    /\ error = NoError
    /\ output = << >>
    /\ max_slot = 0
    /\ conditional_count = 0
    /\ level = 0
    /\ pc = 0
    /\ stack = << >>
    /\ ip = 0

\* a call in progress: consume() of a node in the parse pass, visit() of a
\* node (with its local `slot`) in the generation pass
Frame(node, slot) == [node |-> node, slot |-> slot]

\* the node whose consume() or visit() is running
Top == frames[Len(frames)].node

Pop(q) == SubSeq(q, 1, Len(q) - 1)

\* raise <kind>(msg); `at` is the line number the message carries, 0 for none
Raise(kind, msg, at) ==
    /\ phase' = "error"
    /\ error' = [kind |-> kind, msg |-> msg, line_no |-> at]

\* TealishCompiler.consume_line; the line handed out is stripped
Consumed(raw) ==
    /\ source_lines' = Append(source_lines, raw)
    /\ line_no' = line_no + 1

\* a constructor raised while the line was being turned into a node
ParseAbort(raw, r) ==
    /\ Consumed(raw)
    /\ Raise(r.err, r.msg, r.at)
    /\ UNCHANGED <<stack, ip, nodes, scopes, frames, output, max_slot, conditional_count,
                   level, pc>>

\* TealishCompiler.parse: Program.consume builds the root node and its scope
parse ==
    /\ phase = "init"
    /\ phase' = "parse"
    /\ nodes' = <<[Node(nodes, "Program", "", line_no, 0) EXCEPT !.current_scope = 1]>>
    /\ scopes' = <<Scope(scopes, "", 0)>>
    /\ frames' = <<Frame(1, 0)>>
    /\ UNCHANGED <<stack, ip, source_lines, line_no, error, output, max_slot,
                   conditional_count, level, pc>>

\* statements whose classes the model does not build
NotModelled(line) ==
    StartsWith(line, "assert(")

\* Statement.consume for the next line, called by the consume() of node p:
\* a line statement is built and added to p; a composite statement is
\* built and its own consume loop entered
Statement_consume(raw, p) ==
    LET line == StrStrip(raw)
        ln   == line_no + 1
        self == Len(nodes) + 1
    IN
    /\ ~NotModelled(line)
    /\ IF StartsWith(line, "block ") THEN
           LET r == Block_init(nodes, scopes, line, ln, p) IN
           IF r.err # "" THEN ParseAbort(raw, r)
           ELSE /\ Consumed(raw)
                /\ nodes' = Append(nodes, r.node)
                /\ scopes' = r.scopes
                /\ frames' = Append(frames, Frame(self, 0))
                /\ UNCHANGED <<stack, ip, phase, error, output, max_slot,
                               conditional_count, level, pc>>
       ELSE IF StartsWith(line, "switch ") THEN
           \* Switch.__init__; else_ is << >> for None
           LET m == Match_Switch(line) IN
           IF ~m.ok
           THEN ParseAbort(raw, [err |-> "ParseError", msg |-> PatternError, at |-> 0])
           ELSE /\ Consumed(raw)
                /\ nodes' = Append(nodes,
                       WithGroups(Node(nodes, "Switch", line, ln, p),
                                  [expression |-> m.expression, options |-> << >>,
                                   else_ |-> << >>]))
                /\ frames' = Append(frames, Frame(self, 0))
                /\ UNCHANGED <<stack, ip, phase, error, output, max_slot, scopes,
                               conditional_count, level, pc>>
       ELSE IF StartsWith(line, "func ") THEN
           LET r == Func_init(nodes, scopes, line, ln, p) IN
           IF r.err # "" THEN ParseAbort(raw, r)
           ELSE /\ Consumed(raw)
                /\ nodes' = Append(nodes, r.node)
                /\ scopes' = r.scopes
                /\ frames' = Append(frames, Frame(self, 0))
                /\ UNCHANGED <<stack, ip, phase, error, output, max_slot,
                               conditional_count, level, pc>>
       ELSE IF StartsWith(line, "if ") THEN
           \* IfStatement.__init__, and the IfThen("") that IfStatement.consume
           \* opens before it reads on
           LET m   == Match_If(line)
               ifn == WithGroups(Node(nodes, "IfStatement", line, ln, p),
                          [modifier |-> m.modifier, condition |-> m.condition,
                           conditional_index |-> conditional_count,
                           end_label |-> "l" \o ToString(conditional_count) \o "_end"])
           IN
           IF ~m.ok
           THEN ParseAbort(raw, [err |-> "ParseError", msg |-> PatternError, at |-> 0])
           ELSE /\ Consumed(raw)
                /\ nodes' = nodes \o
                       <<ifn, WithGroups(Node(Append(nodes, ifn), "IfThen", "", ln, self),
                                         [label |-> ""])>>
                /\ conditional_count' = conditional_count + 1
                /\ frames' = frames \o <<Frame(self, 0), Frame(self + 1, 0)>>
                /\ UNCHANGED <<stack, ip, phase, error, output, max_slot, scopes, level, pc>>
       ELSE IF StartsWith(line, "while ") THEN
           \* WhileStatement.__init__
           LET m == Match_While(line) IN
           IF ~m.ok
           THEN ParseAbort(raw, [err |-> "ParseError", msg |-> PatternError, at |-> 0])
           ELSE /\ Consumed(raw)
                /\ nodes' = Append(nodes,
                       WithGroups(Node(nodes, "WhileStatement", line, ln, p),
                           [modifier |-> m.modifier, condition |-> m.condition,
                            conditional_index |-> conditional_count,
                            start_label |-> "l" \o ToString(conditional_count) \o "_while",
                            end_label   |-> "l" \o ToString(conditional_count) \o "_end"]))
                /\ conditional_count' = conditional_count + 1
                /\ frames' = Append(frames, Frame(self, 0))
                /\ UNCHANGED <<stack, ip, phase, error, output, max_slot, scopes, level, pc>>
       ELSE IF StartsWith(line, "for ") THEN
           LET r == ForStatement_init(nodes, conditional_count, line, ln, p) IN
           IF r.err # "" THEN ParseAbort(raw, r)
           ELSE /\ Consumed(raw)
                /\ nodes' = Append(nodes, r.node)
                /\ conditional_count' = conditional_count + 1
                /\ frames' = Append(frames, Frame(self, 0))
                /\ UNCHANGED <<stack, ip, phase, error, output, max_slot, scopes, level, pc>>
       ELSE IF StartsWith(line, "teal:") THEN
           \* Teal.consume: Node.pattern matches every line
           /\ Consumed(raw)
           /\ nodes' = Append(nodes, Node(nodes, "Teal", line, ln, p))
           /\ frames' = Append(frames, Frame(self, 0))
           /\ UNCHANGED <<stack, ip, phase, error, output, max_slot, scopes,
                          conditional_count, level, pc>>
       ELSE IF StartsWith(line, "inner_group:") THEN
           \* InnerGroup.consume: Node.pattern matches every line
           /\ Consumed(raw)
           /\ nodes' = Append(nodes, Node(nodes, "InnerGroup", line, ln, p))
           /\ frames' = Append(frames, Frame(self, 0))
           /\ UNCHANGED <<stack, ip, phase, error, output, max_slot, scopes,
                          conditional_count, level, pc>>
       ELSE IF StartsWith(line, "inner_txn:") THEN
           \* InnerTxn.consume; the field `nodes` is the node's list of
           \* children, its field setters
           /\ Consumed(raw)
           /\ nodes' = Append(nodes, WithGroups(Node(nodes, "InnerTxn", line, ln, p),
                                                [nodes |-> << >>]))
           /\ frames' = Append(frames, Frame(self, 0))
           /\ UNCHANGED <<stack, ip, phase, error, output, max_slot, scopes,
                          conditional_count, level, pc>>
       ELSE
           LET r == LineStatement_consume(nodes, line, ln, p) IN
           IF r.err # "" THEN ParseAbort(raw, r)
           ELSE /\ Consumed(raw)
                /\ nodes' = Append(nodes, r.node)
                /\ UNCHANGED <<stack, ip, phase, error, output, max_slot, scopes, frames,
                               conditional_count, level, pc>>

\* the `end` line of the composite node on top: consume() returns the node
\* to the caller, whose add_child checks its class
End_consumed(raw) ==
    LET i == Top
        p == nodes[i].parent
    IN  IF ~ChildAllowed(nodes[p].kind, nodes[i].kind)
        THEN ParseAbort(raw, [err |-> "ParseError", msg |-> "Unexpected child node",
                              at |-> nodes[p].line_no])
        ELSE /\ Consumed(raw)
             /\ nodes' = Append(nodes,
                    WithGroups(Node(nodes, "End", StrStrip(raw), line_no + 1, i),
                               [of |-> i]))
             /\ frames' = Pop(frames)
             /\ UNCHANGED <<stack, ip, phase, error, output, max_slot, scopes,
                            conditional_count, level, pc>>

\* Program.consume: one turn of its loop on a line that is there
Program_consume(raw) ==
    /\ phase = "parse"
    /\ nodes[Top].kind = "Program"
    /\ Statement_consume(raw, Top)

\* Program.consume: peek() is None, the tree is complete;
\* TealishCompiler.compile then visits the program's children
Program_consume_eof ==
    /\ phase = "parse"
    /\ nodes[Top].kind = "Program"
    /\ phase' = "compile"
    /\ frames' = << >>
    /\ pc' = 2
    /\ UNCHANGED <<stack, ip, source_lines, line_no, nodes, scopes, error, output, max_slot,
                   conditional_count, level>>

\* Block.consume: one turn of its loop
Block_consume(raw) ==
    /\ phase = "parse"
    /\ nodes[Top].kind = "Block"
    /\ IF StrStrip(raw) = "end" THEN End_consumed(raw)
       ELSE Statement_consume(raw, Top)

\* ForStatement.consume: one turn of its loop
ForStatement_consume(raw) ==
    /\ phase = "parse"
    /\ nodes[Top].kind = "ForStatement"
    /\ IF StrStrip(raw) = "end" THEN End_consumed(raw)
       ELSE Statement_consume(raw, Top)

\* Func.consume: one turn of its loop; after `end` the last child must be
\* a Return
Func_consume(raw) ==
    /\ phase = "parse"
    /\ nodes[Top].kind = "Func"
    /\ IF StrStrip(raw) = "end" THEN
           IF Children(nodes, Top) = {}
           THEN ParseAbort(raw, [err |-> "IndexError",
                                 msg |-> "list index out of range", at |-> 0])
           ELSE IF nodes[SetMax(Children(nodes, Top))].kind # "Return"
           THEN ParseAbort(raw, [err |-> "ParseError", at |-> line_no + 1,
                                 msg |-> "func must end with a return statement"])
           ELSE End_consumed(raw)
       ELSE Statement_consume(raw, Top)

\* Switch.consume: one turn of its loop; add_option and add_else keep the
\* options and the else of the switch, the last else given is the one kept
Switch_consume(raw) ==
    LET line == StrStrip(raw)
        i    == Top
        m    == IF StartsWith(line, "else:") THEN Match_SwitchElse(line)
                ELSE Match_SwitchOption(line)
        item == [block_name |-> m.block_name, line_no |-> line_no + 1,
                 expression |-> IF StartsWith(line, "else:") THEN "" ELSE m.expression]
    IN
    /\ phase = "parse"
    /\ nodes[Top].kind = "Switch"
    /\ IF line = "end" THEN
           IF ~ChildAllowed(nodes[nodes[i].parent].kind, "Switch")
           THEN ParseAbort(raw, [err |-> "ParseError", msg |-> "Unexpected child node",
                                 at |-> nodes[nodes[i].parent].line_no])
           ELSE /\ Consumed(raw)
                /\ frames' = Pop(frames)
                /\ UNCHANGED <<stack, ip, phase, error, output, max_slot, scopes, nodes,
                               conditional_count, level, pc>>
       ELSE IF ~m.ok THEN
           ParseAbort(raw, [err |-> "ParseError", msg |-> PatternError, at |-> 0])
       ELSE
           /\ Consumed(raw)
           /\ nodes' = IF StartsWith(line, "else:")
                       THEN [nodes EXCEPT ![i].else_ = <<item>>]
                       ELSE [nodes EXCEPT ![i].options = Append(@, item)]
           /\ UNCHANGED <<stack, ip, phase, error, output, max_slot, scopes, frames,
                          conditional_count, level, pc>>

\* the lines at which the loop of a clause's consume breaks: IfThen and
\* Elif at a line that starts with end, elif or else:, Else at one that
\* starts with end
ClauseEnds(kind, line) ==
    \/ StartsWith(line, "end")
    \/ kind # "Else" /\ (StartsWith(line, "elif") \/ StartsWith(line, "else:"))

\* IfThen.consume, Elif.consume, Else.consume: one turn of the loop, and
\* when it breaks the turn of the loop of IfStatement.consume that reads the
\* same line: `end` closes the statement, `elif ` and `else:` open the next
\* clause.  At any other line that loop tests the line, which is then the
\* last of source_lines read and stays unconsumed, matches none of its
\* three cases and starts over: the pass is at phase "spin"
Clause_consume(raw) ==
    LET line   == StrStrip(raw)
        ln     == line_no + 1
        c      == Top
        s      == nodes[c].parent
        closed == Append(nodes, WithGroups(Node(nodes, "End", "", line_no, c),
                                           [of |-> c]))
        elifs  == {j \in Children(nodes, s) : nodes[j].kind = "Elif"}
        index  == ToString(nodes[s].conditional_index)
        m      == Match_Elif(line)
    IN
    /\ phase = "parse"
    /\ nodes[Top].kind \in {"IfThen", "Elif", "Else"}
    /\ IF ~ClauseEnds(nodes[c].kind, line) THEN Statement_consume(raw, c)
       ELSE IF line = "end" THEN
           IF ~ChildAllowed(nodes[nodes[s].parent].kind, "IfStatement")
           THEN ParseAbort(raw, [err |-> "ParseError", msg |-> "Unexpected child node",
                                 at |-> nodes[nodes[s].parent].line_no])
           ELSE /\ Consumed(raw)
                /\ nodes' = Append(closed, WithGroups(Node(nodes, "End", line, ln, s),
                                                      [of |-> s]))
                /\ frames' = Pop(Pop(frames))
                /\ UNCHANGED <<stack, ip, phase, error, output, max_slot, scopes,
                               conditional_count, level, pc>>
       ELSE IF StartsWith(line, "elif ") THEN
           IF ~m.ok
           THEN ParseAbort(raw, [err |-> "ParseError", msg |-> PatternError, at |-> 0])
           ELSE /\ Consumed(raw)
                /\ nodes' = Append(closed,
                       WithGroups(Node(nodes, "Elif", line, ln, s),
                           [modifier |-> m.modifier, condition |-> m.condition,
                            label |-> "l" \o index \o "_elif_"
                                          \o ToString(Cardinality(elifs))]))
                /\ frames' = Append(Pop(frames), Frame(Len(nodes) + 2, 0))
                /\ UNCHANGED <<stack, ip, phase, error, output, max_slot, scopes,
                               conditional_count, level, pc>>
       ELSE IF StartsWith(line, "else:") THEN
           /\ Consumed(raw)
           /\ nodes' = Append(closed,
                  WithGroups(Node(nodes, "Else", line, ln, s),
                             [label |-> "l" \o index \o "_else"]))
           /\ frames' = Append(Pop(frames), Frame(Len(nodes) + 2, 0))
           /\ UNCHANGED <<stack, ip, phase, error, output, max_slot, scopes,
                          conditional_count, level, pc>>
       ELSE
           /\ source_lines' = Append(source_lines, raw)
           /\ phase' = "spin"
           /\ nodes' = closed
           /\ frames' = Pop(frames)
           /\ UNCHANGED <<stack, ip, line_no, error, output, max_slot, scopes,
                          conditional_count, level, pc>>

\* IfStatement.consume: a turn of its loop at a line that is not `end` and
\* starts with neither `elif ` nor `else:`; no branch is taken, nothing is
\* consumed and the loop goes round
IfStatement_consume_spin ==
    /\ phase = "spin"
    /\ nodes[Top].kind = "IfStatement"
    /\ LET line == StrStrip(source_lines[line_no + 1])
       IN  /\ line # "end"
           /\ ~StartsWith(line, "elif ")
           /\ ~StartsWith(line, "else:")
    /\ UNCHANGED vars

\* WhileStatement.consume: one turn of its loop
WhileStatement_consume(raw) ==
    /\ phase = "parse"
    /\ nodes[Top].kind = "WhileStatement"
    /\ IF StrStrip(raw) = "end" THEN End_consumed(raw)
       ELSE Statement_consume(raw, Top)

\* Teal.consume: one turn of its loop; every line but `end` is a TealLine
Teal_consume(raw) ==
    /\ phase = "parse"
    /\ nodes[Top].kind = "Teal"
    /\ IF StrStrip(raw) = "end" THEN End_consumed(raw)
       ELSE /\ Consumed(raw)
            /\ nodes' = Append(nodes, Node(nodes, "TealLine", StrStrip(raw),
                                           line_no + 1, Top))
            /\ UNCHANGED <<stack, ip, phase, error, output, max_slot, scopes, frames,
                           conditional_count, level, pc>>

\* InnerTxn.consume: one turn of its loop.  A line that starts with `#` is
\* consumed and dropped, any other line but `end` is a field setter; after
\* `end` a transaction outside an inner group is put into a group of its
\* own, InnerGroup("", parent), built when `end` has been consumed, which
\* takes the transaction's place among the parent's children
InnerTxn_consume(raw) ==
    LET line == StrStrip(raw)
        i    == Top
        p    == nodes[i].parent
        m    == Match_InnerTxnFieldSetter(line)
        txn  == nodes[i]
    IN
    /\ phase = "parse"
    /\ nodes[Top].kind = "InnerTxn"
    /\ IF line = "end" THEN
           IF find_parent(nodes, p, "InnerGroup") # 0
           THEN \* the transaction itself is returned; its field setters are
                \* in its field `nodes`, so no end marker follows it
                IF ~ChildAllowed(nodes[p].kind, "InnerTxn")
                THEN ParseAbort(raw, [err |-> "ParseError",
                                      msg |-> "Unexpected child node",
                                      at |-> nodes[p].line_no])
                ELSE /\ Consumed(raw)
                     /\ frames' = Pop(frames)
                     /\ UNCHANGED <<stack, ip, phase, error, output, max_slot, scopes,
                                    nodes, conditional_count, level, pc>>
           ELSE IF ~ChildAllowed(nodes[p].kind, "InnerGroup")
           THEN ParseAbort(raw, [err |-> "ParseError", msg |-> "Unexpected child node",
                                 at |-> nodes[p].line_no])
           ELSE /\ Consumed(raw)
                /\ nodes' = SubSeq(nodes, 1, i - 1) \o
                      <<Node(nodes, "InnerGroup", "", line_no + 1, p),
                        [txn EXCEPT !.parent = i],
                        WithGroups(Node(nodes, "End", line, line_no + 1, i),
                                   [of |-> i])>>
                /\ frames' = Pop(frames)
                /\ UNCHANGED <<stack, ip, phase, error, output, max_slot, scopes,
                               conditional_count, level, pc>>
       ELSE IF StartsWith(line, "#") THEN
           /\ Consumed(raw)
           /\ UNCHANGED <<stack, ip, phase, error, output, max_slot, scopes, frames,
                          nodes, conditional_count, level, pc>>
       ELSE IF ~m.ok THEN
           ParseAbort(raw, [err |-> "ParseError", msg |-> PatternError, at |-> 0])
       ELSE
           /\ Consumed(raw)
           /\ nodes' = [nodes EXCEPT ![i].nodes =
                           Append(@, [field_name |-> m.field_name, index |-> m.index,
                                      expression |-> m.expression, line |-> line,
                                      line_no |-> line_no + 1])]
           /\ UNCHANGED <<stack, ip, phase, error, output, max_slot, scopes, frames,
                          conditional_count, level, pc>>

\* InnerGroup.consume: one turn of its loop; any line that starts with
\* `end` closes the group
InnerGroup_consume(raw) ==
    /\ phase = "parse"
    /\ nodes[Top].kind = "InnerGroup"
    /\ IF StartsWith(StrStrip(raw), "end")
       THEN End_consumed(raw)
       ELSE Statement_consume(raw, Top)

\* the input ends inside a composite: peek() is None, which is not "end".
\* Statement.consume and InnerTxn.consume call startswith on it; in a teal
\* block TealLine is built from the None that consume_line returns and
\* re.match refuses it
Composite_consume_eof ==
    /\ phase = "parse"
    /\ nodes[Top].kind \in {"Block", "Func", "ForStatement", "Teal", "InnerTxn", "Switch",
                            "WhileStatement", "IfThen", "Elif", "Else", "InnerGroup"}
    /\ IF nodes[Top].kind = "Teal"
       THEN Raise("TypeError", "expected string or bytes-like object", 0)
       ELSE Raise("AttributeError", "'NoneType' object has no attribute 'startswith'", 0)
    /\ UNCHANGED <<stack, ip, source_lines, line_no, nodes, scopes, frames, output, max_slot,
                   conditional_count, level, pc>>

(* ------------------------------------------------------------------ *)
(* Emitted lines and expressions                                        *)
(* ------------------------------------------------------------------ *)
\* one emitted line: its opcode (or "//" for a comment line, "label" for
\* `<arg>:`), its operand and its trailing comment
L(op, arg, note) == [op |-> op, arg |-> arg, note |-> note]

\* TealishCompiler.write(lines, line_no): each line joins the output and
\* the source map takes line_no for it
Written(out, lines, ln) ==
    out \o [i \in 1..Len(lines) |->
               [op |-> lines[i].op, arg |-> lines[i].arg,
                note |-> lines[i].note, src |-> ln]]

\* Literal.parse(text).value of a constant's expression
LiteralValue(text) == IF IsDigits(text) THEN ParseInt(text) ELSE text

\* an operand of an expression: a literal, a variable or a constant,
\* resolved against the result of get_scope()
Operand(text, sc) ==
    IF IsDigits(text)
    THEN [err |-> "", type |-> "int", teal |-> <<L("pushint", ParseInt(text), "")>>]
    ELSE IF IsIdent(text, Lower \cup {"_"}, IdentChar)
    THEN IF text \in DOMAIN sc.slots
         THEN [err |-> "", type |-> sc.slots[text][2],
               teal |-> <<L("load", sc.slots[text][1], text)>>]
         ELSE [err |-> "Var not declared in current scope"]
    ELSE IF IsIdent(text, Upper, IdentChar)
    THEN IF text \in DOMAIN sc.consts
         THEN [err |-> "", type |-> sc.consts[text][1],
               teal |-> <<L("pushint", sc.consts[text][2], text)>>]
         ELSE [err |-> "Constant not declared in scope"]
    ELSE [err |-> "Cannot parse expression"]

RECURSIVE Operands(_, _)
Operands(texts, sc) ==
    IF Len(texts) = 0 THEN [err |-> "", teal |-> << >>]
    ELSE LET a == Operand(StrStrip(Head(texts)), sc)
             r == Operands(Tail(texts), sc)
         IN  IF a.err # "" THEN [err |-> a.err]
             ELSE IF r.err # "" THEN [err |-> r.err]
             ELSE [err |-> "", teal |-> a.teal \o r.teal]

\* the type of a call: the one type of a single value, a list otherwise
ResultType(types) ==
    IF Len(types) = 1 THEN types[1] ELSE "list"

\* GenericExpression.process(scope) and teal(): an operand, or a call
\* name(operand, ...) of a subroutine of the scope
Expression(text, sc, nds) ==
    LET n    == SpanLen(text, 1, IdentChar)
        name == Take(text, n)
        args == SubSeq(text, n + 2, Len(text) - 1)
        r    == Operands(IF args = "" THEN << >> ELSE StrSplit(args, ","), sc)
    IN  IF n > 0 /\ CharAt(text, n + 1) = "(" /\ EndsWith(text, ")")
        THEN IF name \notin DOMAIN sc.functions
             THEN [err |-> "Unknown function"]
             ELSE IF r.err # "" THEN [err |-> r.err]
             ELSE [err |-> "", type |-> ResultType(nds[sc.functions[name]].result_types),
                   types |-> nds[sc.functions[name]].result_types,
                   teal |-> r.teal \o
                            <<L("callsub", nds[sc.functions[name]].label, "")>>]
        ELSE Operand(text, sc)

(* ------------------------------------------------------------------ *)
(* The generation pass                                                  *)
(* ------------------------------------------------------------------ *)
\* visit() of the node at pc is about to run
Visiting(kind) ==
    /\ phase = "compile"
    /\ pc <= Len(nodes)
    /\ nodes[pc].kind = kind

\* node j lies below node i in the tree
RECURSIVE Under(_, _, _)
Under(nds, j, i) ==
    IF j = 0 THEN FALSE
    ELSE nds[j].parent = i \/ Under(nds, nds[j].parent, i)

\* Node.has_child_node
has_child_node(nds, i, kind) ==
    \E j \in 1..Len(nds) : nds[j].kind = kind /\ Under(nds, j, i)

\* the node whose visit() returns in the step at pc, 0 for none: the one
\* an end marker closes, or a node at pc that has no children to visit
Returning ==
    IF nodes[pc].kind = "End" THEN nodes[pc].of
    ELSE IF \E j \in 1..Len(nodes) : nodes[j].kind = "End" /\ nodes[j].of = pc
    THEN 0
    ELSE pc

\* the loop of InnerGroup.visit after node.visit() of a child: itxn_next
\* follows every child but the last that is or holds an InnerTxn
GroupNext(out) ==
    LET c == IF nodes[pc].kind = "End" THEN nodes[pc].of ELSE pc
        g == nodes[c].parent
    IN  IF /\ g # 0
           /\ nodes[g].kind = "InnerGroup"
           /\ Returning = c
           /\ c # SetMax(Children(nodes, g))
           /\ (nodes[c].kind = "InnerTxn" \/ has_child_node(nodes, c, "InnerTxn"))
        THEN Written(out, <<L("itxn_next", "", "")>>, nodes[g].line_no)
        ELSE out

\* the visit went through: the pass moves to the next node in document order
Step(out, scs, ms, lvl, frs) ==
    /\ output' = GroupNext(out)
    /\ scopes' = scs
    /\ max_slot' = ms
    /\ level' = lvl
    /\ frames' = frs
    /\ pc' = pc + 1
    /\ UNCHANGED <<stack, ip, phase, error, source_lines, line_no, nodes, conditional_count>>

\* the visit raised, with the output, scopes and high-water mark it had
\* reached.  Node.visit turns an exception of process() into a
\* CompileError (kind "CompileError") that names the node's line; a class
\* with a visit() of its own lets it through as it is (kind "Exception"),
\* with no line number
Fail(kind, msg, out, scs, ms) ==
    /\ Raise(kind, msg, IF kind = "CompileError" THEN nodes[pc].line_no ELSE 0)
    /\ output' = out
    /\ scopes' = scs
    /\ max_slot' = ms
    /\ UNCHANGED <<stack, ip, level, frames, pc, source_lines, line_no, nodes,
                   conditional_count>>

\* IntDeclaration.process / BytesDeclaration.process
Declaration_process(kind, type) ==
    /\ Visiting(kind)
    /\ LET n  == nodes[pc]
           d  == declare_var(scopes, max_slot, n.current_scope, n.name, type)
           c  == <<L("//", n.line \o " [slot " \o ToString(d.slot) \o "]", "")>>
           e  == Expression(n.expression, get_scope(d.scopes, n.current_scope), nodes)
       IN  IF d.err # ""
           THEN Fail("CompileError", d.err, output, d.scopes, d.max_slot)
           ELSE IF ~n.has_expression
           THEN Step(Written(output, c, n.line_no), d.scopes, d.max_slot, level, frames)
           ELSE IF e.err # ""
           THEN Fail("CompileError", e.err, Written(output, c, n.line_no),
                     d.scopes, d.max_slot)
           ELSE IF e.type \notin {type, "any"}
           THEN Fail("CompileError", "Incorrect type for assignment",
                     Written(output, c, n.line_no), d.scopes, d.max_slot)
           ELSE Step(Written(output, c \o e.teal \o <<L("store", d.slot, n.name)>>,
                             n.line_no),
                     d.scopes, d.max_slot, level, frames)

IntDeclaration_process == Declaration_process("IntDeclaration", "int")

BytesDeclaration_process == Declaration_process("BytesDeclaration", "bytes")

\* the loop of Assignment.process over the names: a store or a pop for
\* each, or the exception of the first name that fails
RECURSIVE AssignNames(_, _, _, _)
AssignNames(names, types, scs, s) ==
    IF Len(names) = 0 THEN [err |-> "", teal |-> << >>]
    ELSE LET name == Head(names)
             v    == get_var(scs, s, name)
             r    == AssignNames(Tail(names), Tail(types), scs, s)
         IN  IF name = "_"
             THEN IF r.err # "" THEN r
                  ELSE [err |-> "",
                        teal |-> <<L("pop", "", "discarding value for _")>> \o r.teal]
             ELSE IF ~v.found THEN [err |-> "Var not declared in current scope"]
             ELSE IF ~(Head(types) = "any" \/ Head(types) = v.type)
             THEN [err |-> "Incorrect type for assignment"]
             ELSE IF r.err # "" THEN r
             ELSE [err |-> "", teal |-> <<L("store", v.slot, name)>> \o r.teal]

\* Assignment.process
Assignment_process ==
    /\ Visiting("Assignment")
    /\ LET n     == nodes[pc]
           e     == Expression(n.expression, get_scope(scopes, n.current_scope), nodes)
           names == SplitNames(n.names)
           types == IF "types" \in DOMAIN e THEN e.types ELSE <<e.type>>
           c     == <<L("//", n.line, "")>>
           a     == AssignNames(names, types, scopes, n.current_scope)
       IN  IF e.err # ""
           THEN Fail("CompileError", e.err, output, scopes, max_slot)
           ELSE IF Len(types) # Len(names)
           THEN Fail("CompileError", "Incorrect number of names for values",
                     Written(output, c \o e.teal, n.line_no), scopes, max_slot)
           ELSE IF a.err # ""
           THEN Fail("CompileError", a.err,
                     Written(output, c \o e.teal, n.line_no), scopes, max_slot)
           ELSE Step(Written(output, c \o e.teal \o a.teal, n.line_no),
                     scopes, max_slot, level, frames)

\* Const.process
Const_process ==
    /\ Visiting("Const")
    /\ LET n == nodes[pc] IN
       Step(output,
            [scopes EXCEPT ![n.current_scope].consts =
                DictPut(@, n.name, <<n.type, LiteralValue(n.expression)>>)],
            max_slot, level, frames)

\* Jump.process
Jump_process ==
    /\ Visiting("Jump")
    /\ LET n == nodes[pc]
           b == get_block(scopes, n.current_scope, n.block_name)
           c == <<L("//", n.line, "")>>
       IN  IF ~b.found
           THEN Fail("CompileError", "'NoneType' object has no attribute 'label'",
                     Written(output, c, n.line_no), scopes, max_slot)
           ELSE Step(Written(output, c \o <<L("b", nodes[b.node].label, "")>>,
                             n.line_no),
                     scopes, max_slot, level, frames)

\* Exit.process
Exit_process ==
    /\ Visiting("Exit")
    /\ LET n == nodes[pc]
           e == Expression(n.expression, get_scope(scopes, n.current_scope), nodes)
           c == <<L("//", n.line, "")>>
       IN  IF e.err # ""
           THEN Fail("CompileError", e.err, Written(output, c, n.line_no),
                     scopes, max_slot)
           ELSE Step(Written(output, c \o e.teal \o <<L("return", "", "")>>,
                             n.line_no),
                     scopes, max_slot, level, frames)

\* FunctionCall.process
FunctionCall_process ==
    /\ Visiting("FunctionCall")
    /\ LET n == nodes[pc]
           e == Expression(n.expression, get_scope(scopes, n.current_scope), nodes)
           c == <<L("//", n.line, "")>>
       IN  IF e.err # ""
           THEN Fail("CompileError", e.err, Written(output, c, n.line_no),
                     scopes, max_slot)
           ELSE Step(Written(output, c \o e.teal, n.line_no),
                     scopes, max_slot, level, frames)

\* Comment.process
\* TealVersion.process
TealVersion_process ==
    /\ Visiting("TealVersion")
    /\ Step(Written(output, <<L("#pragma version", nodes[pc].version, "")>>,
                    nodes[pc].line_no),
            scopes, max_slot, level, frames)

Comment_process ==
    /\ Visiting("Comment")
    /\ Step(Written(output, <<L("//", nodes[pc].comment, "")>>, nodes[pc].line_no),
            scopes, max_slot, level, frames)

\* Blank.process
Blank_process ==
    /\ Visiting("Blank")
    /\ Step(Written(output, <<L("", "", "")>>, nodes[pc].line_no),
            scopes, max_slot, level, frames)

\* the expressions of a return statement in the order given
RECURSIVE ReturnArgs_in_order(_, _, _)
ReturnArgs_in_order(args, sc, nds) ==
    IF Len(args) = 0 THEN [err |-> "", teal |-> << >>]
    ELSE LET e == Expression(StrStrip(args[1]), sc, nds)
             r == ReturnArgs_in_order(Tail(args), sc, nds)
         IN  IF e.err # "" THEN [err |-> e.err]
             ELSE IF r.err # "" THEN r
             ELSE [err |-> "", teal |-> e.teal \o r.teal]

\* the expressions of a return statement, last first:
\* `for a in args[::-1]`, each processed and written
RECURSIVE ReturnArgs(_, _, _)
ReturnArgs(args, sc, nds) ==
    IF Len(args) = 0 THEN [err |-> "", teal |-> << >>]
    ELSE LET e == Expression(StrStrip(args[Len(args)]), sc, nds)
             r == ReturnArgs(Pop(args), sc, nds)
         IN  IF e.err # "" THEN [err |-> e.err]
             ELSE IF r.err # "" THEN r
             ELSE [err |-> "", teal |-> e.teal \o r.teal]

\* Return.process; split_return_args cuts the text at its commas outside
\* parentheses and quotes (the operands modelled hold neither)
Return_process ==
    /\ Visiting("Return")
    /\ LET n == nodes[pc]
           c == <<L("//", n.line, "")>>
           r == ReturnArgs(IF n.args = "" THEN << >> ELSE StrSplit(n.args, ","),
                           get_scope(scopes, n.current_scope), nodes)
       IN  IF r.err # ""
           THEN Fail("CompileError", r.err, Written(output, c, n.line_no),
                     scopes, max_slot)
           ELSE Step(Written(output, c \o r.teal \o <<L("retsub", "", "")>>,
                             n.line_no),
                     scopes, max_slot, level, frames)

\* Block.process, and the level += 1 of Node.visit before the children
Block_process ==
    /\ Visiting("Block")
    /\ LET n == nodes[pc] IN
       Step(Written(output, <<L("//", "block " \o n.name, ""),
                              L("label", n.label, "")>>, n.line_no),
            scopes, max_slot, level + 1, Append(frames, Frame(pc, 0)))

\* the arguments declared and stored first to last
RECURSIVE DeclareArgs_forward(_, _, _, _)
DeclareArgs_forward(args, scs, ms, s) ==
    IF Len(args) = 0
    THEN [err |-> "", scopes |-> scs, max_slot |-> ms, teal |-> << >>]
    ELSE LET a == Head(args)
             d == declare_var(scs, ms, s, a[1], a[2])
             r == DeclareArgs_forward(Tail(args), d.scopes, d.max_slot, s)
         IN  IF d.err # ""
             THEN [err |-> d.err, scopes |-> scs, max_slot |-> ms, teal |-> << >>]
             ELSE [r EXCEPT !.teal = <<L("store", d.slot, a[1])>> \o @]

\* the loop of Func.visit over the arguments, last first: each is declared
\* in the func's scope and stored
RECURSIVE DeclareArgs(_, _, _, _)
DeclareArgs(args, scs, ms, s) ==
    IF Len(args) = 0
    THEN [err |-> "", scopes |-> scs, max_slot |-> ms, teal |-> << >>]
    ELSE LET a == args[Len(args)]
             d == declare_var(scs, ms, s, a[1], a[2])
             r == DeclareArgs(Pop(args), d.scopes, d.max_slot, s)
         IN  IF d.err # ""
             THEN [err |-> d.err, scopes |-> scs, max_slot |-> ms, teal |-> << >>]
             ELSE [r EXCEPT !.teal = <<L("store", d.slot, a[1])>> \o @]

\* Func.visit, up to its children
Func_visit ==
    /\ Visiting("Func")
    /\ LET n == nodes[pc]
           c == <<L("//", n.line, ""), L("label", n.label, "")>>
           r == DeclareArgs(n.args, scopes, max_slot, n.current_scope)
       IN  IF r.err # ""
           THEN Fail("Exception", r.err,
                     Written(output, c \o r.teal, n.line_no), r.scopes, r.max_slot)
           ELSE Step(Written(output, c \o r.teal, n.line_no),
                     r.scopes, r.max_slot, level, Append(frames, Frame(pc, 0)))

\* ForStatement.visit_explicit_counter, up to the loop body
ForStatement_visit_explicit_counter ==
    /\ Visiting("ForStatement")
    /\ nodes[pc].var # "_"
    /\ LET n  == nodes[pc]
           sc == get_scope(scopes, n.current_scope)
           st == Expression(n.start, sc, nodes)
           en == Expression(n.end, sc, nodes)
           c  == <<L("//", n.line, "")>>
           d  == declare_var(scopes, max_slot, n.current_scope, n.var, "int")
       IN  IF st.err # ""
           THEN Fail("Exception", st.err, Written(output, c, n.line_no),
                     scopes, max_slot)
           ELSE IF en.err # ""
           THEN Fail("Exception", en.err, Written(output, c, n.line_no),
                     scopes, max_slot)
           ELSE IF d.err # ""
           THEN Fail("Exception", d.err, Written(output, c \o st.teal, n.line_no),
                     scopes, max_slot)
           ELSE Step(Written(output,
                         c \o st.teal
                           \o <<L("store", d.slot, n.var),
                                L("label", n.start_label, ""),
                                L("load", d.slot, n.var)>>
                           \o en.teal
                           \o <<L("==", "", ""), L("bnz", n.end_label, "")>>,
                         n.line_no),
                     d.scopes, d.max_slot, level + 1,
                     Append(frames, Frame(pc, d.slot)))

\* ForStatement.visit_explicit_counter, after the loop body
ForStatement_visit_explicit_counter_end ==
    /\ Visiting("End")
    /\ nodes[nodes[pc].of].kind = "ForStatement"
    /\ nodes[nodes[pc].of].var # "_"
    /\ LET n    == nodes[nodes[pc].of]
           slot == frames[Len(frames)].slot
       IN  Step(Written(output,
                    <<L("load", slot, n.var),
                      L("pushint", 1, ""),
                      L("+", "", ""),
                      L("store", slot, n.var),
                      L("b", n.start_label, ""),
                      L("label", n.end_label, "end")>>,
                    n.line_no),
                del_var(scopes, n.current_scope, n.var),
                max_slot, level - 1, Pop(frames))

\* ForStatement.visit_implicit_counter, up to the loop body
ForStatement_visit_implicit_counter ==
    /\ Visiting("ForStatement")
    /\ nodes[pc].var = "_"
    /\ LET n  == nodes[pc]
           sc == get_scope(scopes, n.current_scope)
           st == Expression(n.start, sc, nodes)
           en == Expression(n.end, sc, nodes)
           c  == <<L("//", n.line, "")>>
       IN  IF st.err # ""
           THEN Fail("Exception", st.err, Written(output, c, n.line_no),
                     scopes, max_slot)
           ELSE IF en.err # ""
           THEN Fail("Exception", en.err, Written(output, c, n.line_no),
                     scopes, max_slot)
           ELSE Step(Written(output,
                         c \o st.teal
                           \o <<L("dup", "", ""),
                                L("label", n.start_label, "")>>
                           \o en.teal
                           \o <<L("==", "", ""), L("bnz", n.end_label, "")>>,
                         n.line_no),
                     scopes, max_slot, level + 1, Append(frames, Frame(pc, 0)))

\* ForStatement.visit_implicit_counter, after the loop body
ForStatement_visit_implicit_counter_end ==
    /\ Visiting("End")
    /\ nodes[nodes[pc].of].kind = "ForStatement"
    /\ nodes[nodes[pc].of].var = "_"
    /\ LET n == nodes[nodes[pc].of] IN
       Step(Written(output,
                <<L("pushint", 1, ""),
                  L("+", "", ""),
                  L("dup", "", ""),
                  L("b", n.start_label, ""),
                  L("pop", "", ""),
                  L("label", n.end_label, "end")>>,
                n.line_no),
            scopes, max_slot, level - 1, Pop(frames))

\* Node.visit of a block, after its children: level -= 1
Block_visit_end ==
    /\ Visiting("End")
    /\ nodes[nodes[pc].of].kind = "Block"
    /\ Step(output, scopes, max_slot, level - 1, Pop(frames))

\* Func.visit, after its children
\* the subject of the switch left out of the lines of an option
OptionCode_subject_once(subject, value, label) ==
    value \o <<L("==", "", ""), L("bnz", label, "")>>

\* the lines Switch.visit writes for one option, the label of its block known
OptionCode(subject, value, label) ==
    subject \o value \o <<L("==", "", ""), L("bnz", label, "")>>

\* the loop of Switch.visit over the options from option k on, then the
\* else; get_block of a name that is no block gives None, whose label is an
\* AttributeError
RECURSIVE Switch_options(_, _, _, _)
Switch_options(n, k, subject, out) ==
    LET sc == get_scope(scopes, n.current_scope)
        o  == n.options[k]
        e  == Expression(o.expression, sc, nodes)
        b  == get_block(scopes, n.current_scope, o.block_name)
        eb == get_block(scopes, n.current_scope, n.else_[1].block_name)
        none == "'NoneType' object has no attribute 'label'"
    IN  IF k <= Len(n.options)
        THEN IF e.err # "" THEN [err |-> "Exception", msg |-> e.err, out |-> out]
             ELSE IF ~b.found
             THEN [err |-> "AttributeError", msg |-> none,
                   out |-> Written(out, subject \o e.teal \o <<L("==", "", "")>>,
                                   n.line_no)]
             ELSE Switch_options(n, k + 1, subject,
                      Written(out, OptionCode(subject, e.teal, nodes[b.node].label),
                              n.line_no))
        ELSE IF n.else_ = << >>
        THEN [err |-> "", out |-> Written(out, <<L("err", "", "unexpected value")>>,
                                          n.line_no)]
        ELSE IF ~eb.found THEN [err |-> "AttributeError", msg |-> none, out |-> out]
        ELSE [err |-> "", out |-> Written(out, <<L("b", nodes[eb.node].label, "else")>>,
                                          n.line_no)]

\* Switch.visit; its errors do not pass through Node.visit
Switch_visit ==
    /\ Visiting("Switch")
    /\ LET n == nodes[pc]
           c == Written(output, <<L("//", n.line, "")>>, n.line_no)
           s == Expression(n.expression, get_scope(scopes, n.current_scope), nodes)
           r == Switch_options(n, 1, s.teal, c)
       IN  IF s.err # "" THEN Fail("Exception", s.err, c, scopes, max_slot)
           ELSE IF r.err # "" THEN Fail(r.err, r.msg, r.out, scopes, max_slot)
           ELSE Step(r.out, scopes, max_slot, level, frames)

\* the branch a guard takes when its clause or body is not to run
GuardBranch(modifier, label) ==
    IF modifier = "not" THEN L("bnz", label, "") ELSE L("bz", label, "")

\* WhileStatement.visit up to the body; an error of the condition does not
\* pass through Node.visit
WhileStatement_visit ==
    /\ Visiting("WhileStatement")
    /\ LET n == nodes[pc]
           c == <<L("//", n.line, ""), L("label", n.start_label, "")>>
           e == Expression(n.condition, get_scope(scopes, n.current_scope), nodes)
       IN  IF e.err # ""
           THEN Fail("Exception", e.err, Written(output, c, n.line_no), scopes, max_slot)
           ELSE Step(Written(output,
                             c \o e.teal \o <<GuardBranch(n.modifier, n.end_label)>>,
                             n.line_no),
                     scopes, max_slot, level + 1, Append(frames, Frame(pc, 0)))

\* WhileStatement.visit after the body
WhileStatement_visit_end ==
    /\ Visiting("End")
    /\ nodes[nodes[pc].of].kind = "WhileStatement"
    /\ LET n == nodes[nodes[pc].of] IN
       Step(Written(output, <<L("b", n.start_label, ""), L("label", n.end_label, "end")>>,
                    n.line_no),
            scopes, max_slot, level - 1, Pop(frames))

\* Break.process
Break_process ==
    /\ Visiting("Break")
    /\ LET n == nodes[pc] IN
       Step(Written(output, <<L("//", n.line, ""),
                              L("b", nodes[n.parent_loop].end_label, "")>>, n.line_no),
            scopes, max_slot, level, frames)

\* the clause of the statement after clause c, 0 when c is the last
NextClause(c) ==
    LET later == {j \in Children(nodes, nodes[c].parent) : j > c} IN
    IF later = {} THEN 0 ELSE SetMin(later)

\* every guard sent to the end label
next_label_end(c) == nodes[nodes[c].parent].end_label

\* node.next_label as IfStatement.visit sets it: the label of the next
\* clause, the end label for the last clause
next_label(c) ==
    IF NextClause(c) = 0 THEN nodes[nodes[c].parent].end_label
    ELSE nodes[NextClause(c)].label

\* IfStatement.visit up to its first clause; an error of the condition does
\* not pass through Node.visit
IfStatement_visit ==
    /\ Visiting("IfStatement")
    /\ LET n == nodes[pc]
           c == <<L("//", n.line, "")>>
           e == Expression(n.condition, get_scope(scopes, n.current_scope), nodes)
       IN  IF e.err # ""
           THEN Fail("Exception", e.err, Written(output, c, n.line_no), scopes, max_slot)
           ELSE Step(Written(output,
                             c \o e.teal \o <<GuardBranch(n.modifier, next_label(pc + 1))>>,
                             n.line_no),
                     scopes, max_slot, level + 1, Append(frames, Frame(pc, 0)))

\* IfThen.process
IfThen_process ==
    /\ Visiting("IfThen")
    /\ Step(Written(output, <<L("//", "then:", "")>>, nodes[pc].line_no),
            scopes, max_slot, level, Append(frames, Frame(pc, 0)))

\* the label IfStatement.visit writes before an elif, and Elif.process
Elif_process ==
    /\ Visiting("Elif")
    /\ LET n == nodes[pc]
           s == nodes[n.parent]
           o == Written(Written(output, <<L("label", n.label, "")>>, s.line_no),
                        <<L("//", n.line, "")>>, n.line_no)
           e == Expression(n.condition, get_scope(scopes, n.current_scope), nodes)
       IN  IF e.err # "" THEN Fail("CompileError", e.err, o, scopes, max_slot)
           ELSE Step(Written(o, e.teal \o <<GuardBranch(n.modifier, next_label(pc))>>,
                             n.line_no),
                     scopes, max_slot, level, Append(frames, Frame(pc, 0)))

\* the label IfStatement.visit writes before the else, and Else.process
Else_process ==
    /\ Visiting("Else")
    /\ LET n == nodes[pc] IN
       Step(Written(Written(output, <<L("label", n.label, "")>>, nodes[n.parent].line_no),
                    <<L("//", n.line, "")>>, n.line_no),
            scopes, max_slot, level, Append(frames, Frame(pc, 0)))

\* IfStatement.visit after a clause: the branch to the end label when
\* another clause follows
Clause_visit_end ==
    /\ Visiting("End")
    /\ nodes[nodes[pc].of].kind \in {"IfThen", "Elif", "Else"}
    /\ LET c == nodes[pc].of
           s == nodes[nodes[c].parent]
       IN  Step(IF NextClause(c) # 0
                THEN Written(output, <<L("b", s.end_label, "")>>, s.line_no)
                ELSE output,
                scopes, max_slot, level, Pop(frames))

\* IfStatement.visit after its clauses
IfStatement_visit_end ==
    /\ Visiting("End")
    /\ nodes[nodes[pc].of].kind = "IfStatement"
    /\ LET n == nodes[nodes[pc].of] IN
       Step(Written(output, <<L("label", n.end_label, "end")>>, n.line_no),
            scopes, max_slot, level - 1, Pop(frames))

\* Teal.visit: writes nothing itself and visits its lines
Teal_visit ==
    /\ Visiting("Teal")
    /\ Step(output, scopes, max_slot, level, Append(frames, Frame(pc, 0)))

\* TealLine.process: the line as it stands
TealLine_process ==
    /\ Visiting("TealLine")
    /\ Step(Written(output, <<L(nodes[pc].line, "", "")>>, nodes[pc].line_no),
            scopes, max_slot, level, frames)

Teal_visit_end ==
    /\ Visiting("End")
    /\ nodes[nodes[pc].of].kind = "Teal"
    /\ Step(output, scopes, max_slot, level, Pop(frames))

\* array_fields of InnerTxn.visit: a defaultdict(list), here the sequence
\* of its items in insertion order, each a field name and its setters
FieldAt(af, name) ==
    IF \E j \in 1..Len(af) : af[j].name = name
    THEN CHOOSE j \in 1..Len(af) : af[j].name = name
    ELSE 0

\* array_fields[name].append(setter); the key was made by the lookup
\* len(array_fields[name]) before it
FieldAppended(af, name, setter) ==
    IF FieldAt(af, name) = 0
    THEN Append(af, [name |-> name, items |-> <<setter>>])
    ELSE [af EXCEPT ![FieldAt(af, name)].items = Append(@, setter)]

\* the groups of array_fields taken last first
RECURSIVE Flattened_last_first(_)
Flattened_last_first(af) ==
    IF af = << >> THEN << >>
    ELSE Flattened_last_first(Drop(af, 1)) \o af[1].items

\* every setter of array_fields.values(), group after group
RECURSIVE Flattened(_)
Flattened(af) ==
    IF af = << >> THEN << >> ELSE af[1].items \o Flattened(Drop(af, 1))

\* the three lines that follow the test of the index, for one setter:
\* expression.process, write(expression.teal()), write(itxn_field ...)
RECURSIVE SettersWritten(_, _, _, _)
SettersWritten(setters, out, sc, ln) ==
    IF setters = << >> THEN [err |-> "", out |-> out]
    ELSE LET s == setters[1]
             e == Expression(s.expression, sc, nodes)
         IN  IF e.err # "" THEN [err |-> "Exception", msg |-> e.err, out |-> out]
             ELSE SettersWritten(Drop(setters, 1),
                      Written(out, e.teal \o <<L("itxn_field", s.field_name, "")>>, ln),
                      sc, ln)

\* the first loop of InnerTxn.visit from setter k on, then the second
RECURSIVE InnerTxn_fields(_, _, _, _, _)
InnerTxn_fields(n, k, out, af, sc) ==
    IF k > Len(n.nodes) THEN SettersWritten(Flattened(af), out, sc, n.line_no)
    ELSE LET s     == n.nodes[k]
             j     == FieldAt(af, s.field_name)
             count == IF j = 0 THEN 0 ELSE Len(af[j].items)
             w     == SettersWritten(<<s>>, out, sc, n.line_no)
         IN  IF s.index # ""
             THEN IF count = ParseInt(s.index)
                  THEN InnerTxn_fields(n, k + 1, out,
                                       FieldAppended(af, s.field_name, s), sc)
                  ELSE [err |-> "ParseError", msg |-> "Inccorrect field array index",
                        out |-> out]
             ELSE IF w.err # "" THEN w
             ELSE InnerTxn_fields(n, k + 1, w.out, af, sc)

\* InnerGroup.visit up to its children
InnerGroup_visit ==
    /\ Visiting("InnerGroup")
    /\ LET n == nodes[pc] IN
       Step(Written(output, <<L("//", n.line, ""), L("itxn_begin", "", "")>>, n.line_no),
            scopes, max_slot, level, Append(frames, Frame(pc, 0)))

\* InnerTxn.visit.  The ParseError of a wrong index
\* names compiler.line_no, the line the parse pass ended at; neither it nor
\* the error of an expression passes through Node.visit
InnerTxn_visit ==
    /\ Visiting("InnerTxn")
    /\ LET n    == nodes[pc]
           r    == InnerTxn_fields(n, 1, Written(output, <<L("//", n.line, "")>>,
                                                 n.line_no),
                                   << >>, get_scope(scopes, n.current_scope))
       IN  IF r.err # ""
           THEN /\ Raise(r.err, r.msg, IF r.err = "ParseError" THEN line_no ELSE 0)
                /\ output' = r.out
                /\ UNCHANGED <<stack, ip, level, frames, pc, source_lines, line_no, nodes,
                               conditional_count, scopes, max_slot>>
           ELSE Step(r.out, scopes, max_slot, level, frames)

\* InnerGroup.visit after its children
InnerGroup_visit_end ==
    /\ Visiting("End")
    /\ nodes[nodes[pc].of].kind = "InnerGroup"
    /\ Step(Written(output, <<L("itxn_submit", "", "")>>, nodes[nodes[pc].of].line_no),
            scopes, max_slot, level, Pop(frames))

Func_visit_end ==
    /\ Visiting("End")
    /\ nodes[nodes[pc].of].kind = "Func"
    /\ Step(output, scopes, max_slot, level, Pop(frames))

\* TealishCompiler.compile returns the output: every node was visited
compile_return ==
    /\ phase = "compile"
    /\ pc = Len(nodes) + 1
    /\ phase' = "done"
    /\ UNCHANGED <<stack, ip, source_lines, line_no, nodes, scopes, frames, error, output,
                   max_slot, conditional_count, level, pc>>

(* ------------------------------------------------------------------ *)
(* Specification Spec: declarations, subroutines and counting loops     *)
(* ------------------------------------------------------------------ *)
\* the source lines a unit is made of
Lines ==
    {"int x", "bytes y", "x = 1", "func f(a: int):", "return", "block b:",
     "for i in 0:3:", "end"}

Next ==
    \/ parse
    \/ \E raw \in Lines : line_no < MaxLines /\ Program_consume(raw)
    \/ \E raw \in Lines : line_no < MaxLines /\ Block_consume(raw)
    \/ \E raw \in Lines : line_no < MaxLines /\ Func_consume(raw)
    \/ \E raw \in Lines : line_no < MaxLines /\ ForStatement_consume(raw)
    \/ Program_consume_eof
    \/ Composite_consume_eof
    \/ IntDeclaration_process
    \/ BytesDeclaration_process
    \/ Assignment_process
    \/ Return_process
    \/ Block_process
    \/ Block_visit_end
    \/ Func_visit
    \/ Func_visit_end
    \/ ForStatement_visit_explicit_counter
    \/ ForStatement_visit_explicit_counter_end
    \/ compile_return

Spec == Init /\ [][Next]_vars

(* ------------------------------------------------------------------ *)
(* Slots: properties                                                    *)
(* ------------------------------------------------------------------ *)
\* the slot indices held by the variable table of scope s
SlotsOf(scs, s) == {scs[s].slots[k][1] : k \in DOMAIN scs[s].slots}

\* scope t is scope s or lies inside it
Within(scs, t, s) ==
    \E k \in 1..Len(get_scopes(scs, t)) : get_scopes(scs, t)[k] = s

\* the scope a func opened for its arguments and locals
FuncNodes == {f \in 1..Len(nodes) : nodes[f].kind = "Func"}

\* subroutine f can be called from the code of scope t: its name resolves
\* from t to f, and t is not part of f
CanCall(t, f) ==
    /\ ~Within(scopes, t, nodes[f].current_scope)
    /\ nodes[f].name \in DOMAIN get_scope(scopes, t).functions
    /\ get_scope(scopes, t).functions[nodes[f].name] = f

\* C1: after generation of a program that compiles, no slot of a variable
\* local to a subroutine (in the func's own scope) is also the slot of a
\* variable declared outside the subroutine in a scope that can call it.
C1_CallerCalleeSlotsDisjoint ==
    phase = "done" =>
        \A f \in FuncNodes : \A t \in 1..Len(scopes) :
            CanCall(t, f) =>
                SlotsOf(scopes, t) \cap SlotsOf(scopes, nodes[f].current_scope) = {}

\* the bindings held by the scopes from s outward: <<scope, name>>
BindingsFrom(scs, s) ==
    UNION {{<<get_scopes(scs, s)[k], n>> : n \in DOMAIN scs[get_scopes(scs, s)[k]].slots} :
              k \in 1..Len(get_scopes(scs, s))}

\* C3: at every point of the generation pass the variables held by the
\* scope of the node being processed and by its ancestors have pairwise
\* distinct slots.
C3_VisibleSlotsDistinct ==
    (phase = "compile" /\ pc <= Len(nodes)) =>
        LET bs == BindingsFrom(scopes, nodes[pc].current_scope) IN
        \A a \in bs : \A b \in bs :
            a # b => scopes[a[1]].slots[a[2]][1] # scopes[b[1]].slots[b[2]][1]

\* C3 witness: a node is processed with a top-level variable, a func
\* argument and a for-loop counter all in sight
C3_Witness ==
    /\ phase = "compile" /\ pc <= Len(nodes)
    /\ Cardinality(BindingsFrom(scopes, nodes[pc].current_scope)) >= 3
    /\ Len(get_scopes(scopes, nodes[pc].current_scope)) >= 2

\* every slot handed out so far: those of the variable tables, and those of
\* the store instructions emitted (a deleted loop counter left its stores)
AllocatedSlots ==
    UNION {SlotsOf(scopes, s) : s \in 1..Len(scopes)} \cup
    {output[i].arg : i \in {j \in 1..Len(output) : output[j].op = "store"}}

\* the slots of the bindings a step adds to subroutine-local scopes (scopes
\* whose qualified name contains func__)
NewFuncLocalSlots ==
    UNION {{scopes'[s].slots[k][1] :
               k \in {n \in DOMAIN scopes'[s].slots :
                         ~(s <= Len(scopes) /\ n \in DOMAIN scopes[s].slots)}} :
              s \in {t \in 1..Len(scopes') : StrContains(scopes'[t].name, "func__")}}

\* C4: a slot given to a variable declared in a subroutine-local scope is
\* the high-water mark plus one (the next ones for the further arguments of
\* one func), strictly above every slot allocated before, and no step
\* lowers the high-water mark.
C4_FuncLocalAboveHighWater ==
    [][ /\ max_slot' >= max_slot
        /\ NewFuncLocalSlots # {} =>
              /\ NewFuncLocalSlots = (max_slot + 1)..max_slot'
              /\ \A n \in NewFuncLocalSlots : \A a \in AllocatedSlots : n > a
      ]_vars

\* C4 witness: a subroutine-local variable holds a slot above two slots
\* allocated before it
C4_Witness ==
    \E s \in 1..Len(scopes) :
        /\ StrContains(scopes[s].name, "func__")
        /\ \E k \in DOMAIN scopes[s].slots : scopes[s].slots[k][1] >= 2

(* ------------------------------------------------------------------ *)
(* Specification SpecNames: blocks, subroutines, constants and the      *)
(* statements that refer to them by name                                *)
(* ------------------------------------------------------------------ *)
NameLines ==
    {"block a:", "end", "jump a", "const int X = 1", "const int X = 2",
     "func f():", "return", "f()", "exit(X)", "exit(x)", "int x", "x = 1"}

NextNames ==
    \/ parse
    \/ \E raw \in NameLines : line_no < MaxNameLines /\ Program_consume(raw)
    \/ \E raw \in NameLines : line_no < MaxNameLines /\ Block_consume(raw)
    \/ \E raw \in NameLines : line_no < MaxNameLines /\ Func_consume(raw)
    \/ Program_consume_eof
    \/ Composite_consume_eof
    \/ IntDeclaration_process
    \/ Assignment_process
    \/ Const_process
    \/ Jump_process
    \/ Exit_process
    \/ FunctionCall_process
    \/ Return_process
    \/ Block_process
    \/ Block_visit_end
    \/ Func_visit
    \/ Func_visit_end
    \/ compile_return

SpecNames == Init /\ [][NextNames]_vars

(* ------------------------------------------------------------------ *)
(* Labels, registrations and lookups (under SpecNames)                  *)
(* ------------------------------------------------------------------ *)
Range(f) == {f[i] : i \in DOMAIN f}

\* the output lines that define the label l
LabelDefs(l) ==
    {i \in 1..Len(output) : output[i].op = "label" /\ output[i].arg = l}

BranchOps == {"b", "bz", "bnz"}

\* C5: in the output of a program that compiles, every label a branch
\* targets is defined by exactly one label line, and no label string is
\* defined twice.
C5_LabelsUnique ==
    phase = "done" =>
        /\ \A i \in 1..Len(output) :
              output[i].op \in BranchOps =>
                  Cardinality(LabelDefs(output[i].arg)) = 1
        /\ \A i \in 1..Len(output) :
              output[i].op = "label" =>
                  Cardinality(LabelDefs(output[i].arg)) = 1

\* the scope a block or subroutine node is met in
EnclosingScope(i) == nodes[nodes[i].parent].current_scope

\* every block and subroutine of the tree is registered by name in the
\* scope it is met in
Registered(nds, scs) ==
    \A i \in 1..Len(nds) :
        /\ nds[i].kind = "Block" =>
              nds[i].name \in DOMAIN scs[nds[nds[i].parent].current_scope].blocks
        /\ nds[i].kind = "Func" =>
              nds[i].name \in DOMAIN scs[nds[nds[i].parent].current_scope].functions

\* a node of the given kind and name is met in a scope on the chain of s
TargetVisible(kind, name, s) ==
    \E i \in 1..Len(nodes) :
        /\ nodes[i].kind = kind
        /\ nodes[i].name = name
        /\ EnclosingScope(i) \in Range(get_scopes(scopes, s))

\* the name a call statement `name(...)` calls
CalleeName(n) == Take(n.expression, SpanLen(n.expression, 1, IdentChar))

\* C6: when generation begins every block and subroutine is registered in
\* its enclosing scope, and a jump to a block, or a call of a subroutine,
\* that is visible from the statement's scope resolves: the statement is
\* compiled to a branch to a block, or a callsub to a subroutine, of that
\* name, wherever in the source the target is defined.
C6_ForwardReferencesResolve ==
    [][ /\ (phase = "parse" /\ phase' = "compile") => Registered(nodes', scopes')
        /\ (Visiting("Jump")
              /\ TargetVisible("Block", nodes[pc].block_name, nodes[pc].current_scope))
           => /\ phase' = "compile"
              /\ \E b \in 1..Len(nodes) :
                    /\ nodes[b].kind = "Block"
                    /\ nodes[b].name = nodes[pc].block_name
                    /\ output'[Len(output')] =
                          [op |-> "b", arg |-> nodes[b].label, note |-> "",
                           src |-> nodes[pc].line_no]
        /\ (Visiting("FunctionCall")
              /\ nodes[pc].expression = CalleeName(nodes[pc]) \o "()"
              /\ TargetVisible("Func", CalleeName(nodes[pc]), nodes[pc].current_scope))
           => /\ phase' = "compile"
              /\ \E f \in 1..Len(nodes) :
                    /\ nodes[f].kind = "Func"
                    /\ nodes[f].name = CalleeName(nodes[pc])
                    /\ output'[Len(output')] =
                          [op |-> "callsub", arg |-> nodes[f].label, note |-> "",
                           src |-> nodes[pc].line_no]
      ]_vars

\* a jump has been compiled to a branch to a block that starts on a later
\* line than the jump
C6_Witness ==
    \E i \in 1..Len(output), b \in 1..Len(nodes) :
        /\ output[i].op = "b"
        /\ nodes[b].kind = "Block"
        /\ nodes[b].label = output[i].arg
        /\ nodes[b].line_no > output[i].src

\* no scope holds a variable or a constant
NoBindings ==
    \A s \in 1..Len(scopes) :
        DOMAIN scopes[s].slots = {} /\ DOMAIN scopes[s].consts = {}

\* the only declarations of the name, of the given kinds, come after the
\* node being visited
DeclaredLater(name, kinds) ==
    /\ \E j \in (pc + 1)..Len(nodes) :
          nodes[j].kind \in kinds /\ nodes[j].name = name
    /\ ~\E j \in 1..(pc - 1) :
          nodes[j].kind \in kinds /\ nodes[j].name = name

VarDeclarations == {"IntDeclaration", "BytesDeclaration"}

\* C7: no scope holds a variable or constant binding before generation
\* starts, and a statement that assigns to, or reads, a variable or a
\* constant declared only later in the source fails compilation with the
\* error of an unresolved name.
C7_NoForwardVariables ==
    [][ /\ (phase \in {"init", "parse"} \/ (phase = "compile" /\ pc = 2))
           => NoBindings
        /\ (Visiting("Assignment")
              /\ \E k \in 1..Len(SplitNames(nodes[pc].names)) :
                    DeclaredLater(SplitNames(nodes[pc].names)[k], VarDeclarations))
           => /\ phase' = "error"
              /\ error'.kind = "CompileError"
              /\ error'.msg = "Var not declared in current scope"
        /\ (Visiting("Exit") /\ DeclaredLater(nodes[pc].expression, VarDeclarations))
           => /\ phase' = "error"
              /\ error'.kind = "CompileError"
              /\ error'.msg = "Var not declared in current scope"
        /\ (Visiting("Exit") /\ DeclaredLater(nodes[pc].expression, {"Const"}))
           => /\ phase' = "error"
              /\ error'.kind = "CompileError"
              /\ error'.msg = "Constant not declared in scope"
      ]_vars

\* compilation failed at an assignment to a variable whose declaration is
\* further down the source
C7_Witness ==
    /\ phase = "error"
    /\ error.kind = "CompileError"
    /\ pc <= Len(nodes)
    /\ nodes[pc].kind = "Assignment"
    /\ DeclaredLater(nodes[pc].names, VarDeclarations)

Tables == {"slots", "consts", "blocks", "functions"}

\* C8: while a statement is being compiled, a name registered in the
\* statement's own scope resolves, through the lookup made from that
\* scope, to the scope's own entry, whatever its ancestors register under
\* the same name.
C8_InnerShadowsOuter ==
    (phase = "compile" /\ pc <= Len(nodes) /\ nodes[pc].kind # "End") =>
        \A t \in Tables :
            \A k \in DOMAIN scopes[nodes[pc].current_scope][t] :
                get_scope(scopes, nodes[pc].current_scope)[t][k] =
                    scopes[nodes[pc].current_scope][t][k]

\* the step compiles a constant whose name the scope already holds
RedeclaresConst ==
    /\ Visiting("Const")
    /\ nodes[pc].name \in DOMAIN scopes[nodes[pc].current_scope].consts

\* the step consumes the header of a block, or of a subroutine, whose name
\* the scope it is met in already registers
RedeclaresBlock ==
    /\ phase = "parse"
    /\ line_no' = line_no + 1
    /\ StartsWith(StrStrip(source_lines'[line_no']), "block ")
    /\ Match_Block(StrStrip(source_lines'[line_no'])).ok
    /\ Match_Block(StrStrip(source_lines'[line_no'])).name
          \in DOMAIN scopes[nodes[Top].current_scope].blocks

RedeclaresFunc ==
    /\ phase = "parse"
    /\ line_no' = line_no + 1
    /\ StartsWith(StrStrip(source_lines'[line_no']), "func ")
    /\ Match_Func(StrStrip(source_lines'[line_no'])).ok
    /\ Match_Func(StrStrip(source_lines'[line_no'])).name
          \in DOMAIN scopes[nodes[Top].current_scope].functions

\* C9: declaring a constant, a block or a subroutine under a name already
\* registered in the same scope ends the compilation with an error.
C9_RedeclarationFails ==
    [][ (RedeclaresConst \/ RedeclaresBlock \/ RedeclaresFunc)
            => phase' = "error" ]_vars

(* ------------------------------------------------------------------ *)
(* Specification SpecFull: programs that open with as many declarations *)
(* as fill the slot range but for its last slot                         *)
(* ------------------------------------------------------------------ *)
PrefixLen == SlotRangeMax - SlotRangeMin

PrefixLine(i) == "int v" \o ToString(i)

ProgramNode == [Node(<< >>, "Program", "", 0, 0) EXCEPT !.current_scope = 1]

\* the state of the parse pass once Program.consume has consumed the
\* lines `int v1` .. `int v<PrefixLen>`: what parse and PrefixLen turns of
\* Program_consume make of Init
InitFull ==
    /\ source_lines = [i \in 1..PrefixLen |-> PrefixLine(i)]
    /\ line_no = PrefixLen
    /\ nodes = [i \in 1..(PrefixLen + 1) |->
                   IF i = 1 THEN ProgramNode
                   ELSE LineStatement_consume(<<ProgramNode>>, PrefixLine(i - 1),
                                              i - 1, 1).node]
    /\ scopes = <<Scope(<< >>, "", 0)>>
    /\ frames = <<Frame(1, 0)>>
    /\ phase = "parse"
    /\ error = NoError
    /\ output = << >>
    /\ max_slot = 0
    /\ conditional_count = 0
    /\ level = 0
    /\ pc = 0
    /\ stack = << >>
    /\ ip = 0

FullLines ==
    {"int x", "int y", "block b:", "func f(a: int):", "func f(a: int, b: int):",
     "return", "end"}

NextFull ==
    \/ \E raw \in FullLines :
          line_no < PrefixLen + MaxTailLines /\ Program_consume(raw)
    \/ \E raw \in FullLines :
          line_no < PrefixLen + MaxTailLines /\ Block_consume(raw)
    \/ \E raw \in FullLines :
          line_no < PrefixLen + MaxTailLines /\ Func_consume(raw)
    \/ Program_consume_eof
    \/ Composite_consume_eof
    \/ IntDeclaration_process
    \/ Return_process
    \/ Block_process
    \/ Block_visit_end
    \/ Func_visit
    \/ Func_visit_end
    \/ compile_return

SpecFull == InitFull /\ [][NextFull]_vars

\* the call declare_var(name, type) the step at pc makes, and the scope it
\* is made in: the one of a declaration statement, or the one for the
\* argument of a subroutine of one argument
DeclaresVar ==
    \/ Visiting("IntDeclaration")
    \/ Visiting("BytesDeclaration")
    \/ Visiting("Func") /\ Len(nodes[pc].args) = 1

DeclaredName ==
    IF nodes[pc].kind = "Func" THEN nodes[pc].args[1][1] ELSE nodes[pc].name

DeclaredType ==
    IF nodes[pc].kind = "Func" THEN nodes[pc].args[1][2]
    ELSE IF nodes[pc].kind = "IntDeclaration" THEN "int" ELSE "bytes"

\* no variable table and no high-water mark changes in the step
TablesUnchanged ==
    /\ max_slot' = max_slot
    /\ Len(scopes') = Len(scopes)
    /\ \A s \in 1..Len(scopes) : scopes'[s].slots = scopes[s].slots

\* the step adds one binding name -> (slot, type) to scope s and to no other
OneBindingAdded(s, name, type) ==
    /\ Len(scopes') = Len(scopes)
    /\ \A t \in 1..Len(scopes) : t # s => scopes'[t].slots = scopes[t].slots
    /\ DOMAIN scopes'[s].slots = DOMAIN scopes[s].slots \cup {name}
    /\ name \notin DOMAIN scopes[s].slots
    /\ \A k \in DOMAIN scopes[s].slots : scopes'[s].slots[k] = scopes[s].slots[k]
    /\ scopes'[s].slots[name][2] = type

RedefinitionError ==
    /\ phase' = "error"
    /\ error'.msg = "Redefinition of variable"
    /\ TablesUnchanged

\* every slot of the range of scope s is taken by a variable visible from s
RangeExhausted(s) ==
    /\ ~StrContains(scopes[s].name, "func__")
    /\ LET slots == get_slots(scopes, s)
           used  == {slots[k][1] : k \in DOMAIN slots}
       IN  \A i \in scopes[s].slot_range[1]..scopes[s].slot_range[2] : i \in used

\* C10 (as stated): declare_var fails with a redefinition error exactly when
\* the name already resolves from the current scope, leaving tables and
\* high-water mark as they were, and otherwise adds exactly one binding to
\* the current scope only.
C10_DeclareVarAddsOrRedefines ==
    [][ DeclaresVar =>
          IF get_var(scopes, nodes[pc].current_scope, DeclaredName).found
          THEN RedefinitionError
          ELSE OneBindingAdded(nodes[pc].current_scope, DeclaredName, DeclaredType)
      ]_vars

\* C10 (amended): as above, but for a name that does not resolve when every
\* slot of the range of a scope outside any subroutine is taken: then
\* declare_var fails with "No available slots!" and changes nothing.
C10_DeclareVarAddsRedefinesOrExhausts ==
    [][ DeclaresVar =>
          IF get_var(scopes, nodes[pc].current_scope, DeclaredName).found
          THEN RedefinitionError
          ELSE IF RangeExhausted(nodes[pc].current_scope)
          THEN /\ phase' = "error"
               /\ error'.msg = "No available slots!"
               /\ TablesUnchanged
          ELSE OneBindingAdded(nodes[pc].current_scope, DeclaredName, DeclaredType)
      ]_vars

\* a declaration has failed for want of a slot, the name being a new one
C10_Witness ==
    /\ phase = "error"
    /\ error.msg = "No available slots!"
    /\ pc <= Len(nodes)
    /\ nodes[pc].kind = "IntDeclaration"
    /\ ~get_var(scopes, nodes[pc].current_scope, nodes[pc].name).found

\* the slots held by the variables that resolve from scope s
VisibleSlots(s) ==
    LET slots == get_slots(scopes, s)
    IN  {slots[k][1] : k \in DOMAIN slots}

\* the step at pc declares a new name in a scope outside any subroutine
DeclaresOutsideFunc ==
    /\ DeclaresVar
    /\ ~StrContains(scopes[nodes[pc].current_scope].name, "func__")
    /\ ~get_var(scopes, nodes[pc].current_scope, DeclaredName).found

\* C22: a variable declared in a scope outside any subroutine gets the
\* smallest slot of the scope's range, 0..200 with both ends, that no
\* variable resolving from the scope holds; when every slot of the range is
\* held, the declaration fails with "No available slots!" and no table
\* changes.
C22_FirstFitOutsideFunc ==
    [][ DeclaresOutsideFunc =>
          LET s    == nodes[pc].current_scope
              lo   == scopes[s].slot_range[1]
              hi   == scopes[s].slot_range[2]
              free == (lo..hi) \ VisibleSlots(s)
          IN  /\ lo = 0 /\ hi = 200
              /\ IF free = {}
                 THEN /\ phase' = "error"
                      /\ error'.msg = "No available slots!"
                      /\ TablesUnchanged
                 ELSE /\ phase' # "error"
                      /\ OneBindingAdded(s, DeclaredName, DeclaredType)
                      /\ scopes'[s].slots[DeclaredName][1] \in free
                      /\ \A i \in free : scopes'[s].slots[DeclaredName][1] <= i
      ]_vars

\* C22 witness: the last slot of the range went to x, after which the
\* declaration of y was refused
C22_Witness ==
    /\ phase = "error"
    /\ error.msg = "No available slots!"
    /\ "x" \in DOMAIN scopes[1].slots
    /\ scopes[1].slots["x"][1] = SlotRangeMax
    /\ VisibleSlots(1) = SlotRangeMin..SlotRangeMax
    /\ pc <= Len(nodes) /\ nodes[pc].kind = "IntDeclaration"
    /\ nodes[pc].name = "y"

\* the loops with a named counter whose body the generation pass is in
OpenCounters ==
    {k \in 1..Len(frames) :
        /\ nodes[frames[k].node].kind = "ForStatement"
        /\ nodes[frames[k].node].var # "_"}

\* the step at pc is ForStatement.visit_explicit_counter up to the body
OpensCounter ==
    /\ Visiting("ForStatement")
    /\ nodes[pc].var # "_"
    /\ phase' # "error"

\* the step at pc is ForStatement.visit_explicit_counter after the body
ClosesCounter ==
    /\ Visiting("End")
    /\ nodes[nodes[pc].of].kind = "ForStatement"
    /\ nodes[nodes[pc].of].var # "_"

\* C23: the counter of a named for loop is bound in the scope enclosing the
\* loop from the store that follows the start expression until the end
\* label is written; leaving the loop removes that one binding from that one
\* scope and changes no other binding and not the high-water mark, after
\* which the name does not resolve.
C23_CounterLifetime ==
    [][ /\ phase = "compile" =>
              \A k \in OpenCounters :
                 LET n == nodes[frames[k].node]
                     v == get_var(scopes, n.current_scope, n.var)
                 IN  /\ n.var \in DOMAIN scopes[n.current_scope].slots
                     /\ v.found /\ v.slot = frames[k].slot /\ v.type = "int"
        /\ OpensCounter =>
              LET n == nodes[pc]
                  s == n.current_scope
              IN  /\ OneBindingAdded(s, n.var, "int")
                  /\ \E j \in (Len(output) + 1)..(Len(output') - 1) :
                        /\ output'[j].op = "store"
                        /\ output'[j].arg = scopes'[s].slots[n.var][1]
                        /\ output'[j].note = n.var
                        /\ output'[j + 1].op = "label"
                        /\ output'[j + 1].arg = n.start_label
                        /\ \A i \in (Len(output) + 1)..(j - 1) :
                              output'[i].op # "store"
        /\ ClosesCounter =>
              LET n == nodes[nodes[pc].of]
                  s == n.current_scope
              IN  /\ Len(scopes') = Len(scopes)
                  /\ \A t \in 1..Len(scopes) :
                        t # s => scopes'[t].slots = scopes[t].slots
                  /\ n.var \in DOMAIN scopes[s].slots
                  /\ DOMAIN scopes'[s].slots = DOMAIN scopes[s].slots \ {n.var}
                  /\ \A b \in DOMAIN scopes'[s].slots :
                        scopes'[s].slots[b] = scopes[s].slots[b]
                  /\ max_slot' = max_slot
                  /\ ~get_var(scopes', s, n.var).found
                  /\ output'[Len(output')].op = "label"
                  /\ output'[Len(output')].arg = n.end_label
      ]_vars

\* C23 witness: after `for i in 0:3:` with `int x` in its body, i is gone,
\* x keeps slot 1 and a later `bytes y` holds slot 0, the counter's
C23_Witness ==
    /\ phase = "done"
    /\ \A s \in 1..Len(scopes) : "i" \notin DOMAIN scopes[s].slots
    /\ \E j \in 1..Len(output) :
          output[j].op = "store" /\ output[j].arg = 0 /\ output[j].note = "i"
    /\ DOMAIN scopes[1].slots = {"x", "y"}
    /\ scopes[1].slots["x"] = <<1, "int">>
    /\ scopes[1].slots["y"] = <<0, "bytes">>
    /\ max_slot = 1

\* C24: every slot held by a variable lies inside the slot range of the
\* scope the variable is declared in, subroutine-local scopes included.
C24_SlotsWithinRange ==
    \A s \in 1..Len(scopes) :
        \A k \in DOMAIN scopes[s].slots :
            /\ scopes[s].slots[k][1] >= scopes[s].slot_range[1]
            /\ scopes[s].slots[k][1] <= scopes[s].slot_range[2]

(* ------------------------------------------------------------------ *)
(* Specification SpecLoop: anonymous-counter loops, compiled and then   *)
(* run on the stack machine the output is written for                   *)
(* ------------------------------------------------------------------ *)
\* the output line a branch to label l lands on
LabelIndex(l) ==
    SetMin({i \in 1..Len(output) : output[i].op = "label" /\ output[i].arg = l})

\* the machine is handed the compiled program
run ==
    /\ phase = "done"
    /\ phase' = "run"
    /\ ip' = 1
    /\ stack' = << >>
    /\ UNCHANGED <<source_lines, line_no, nodes, scopes, frames, error, output,
                   max_slot, conditional_count, level, pc>>

\* the values an instruction takes off the stack
Takes(op) ==
    IF op \in {"==", "+"} THEN 2
    ELSE IF op \in {"dup", "pop", "bnz", "bz"} THEN 1
    ELSE 0

\* the machine executes the line at ip; it halts past the last line.  The
\* counters of the loops explored stay far below the word size, so `+`
\* never wraps
execute ==
    /\ phase = "run"
    /\ Len(stack) <= MaxStack
    /\ \A k \in 1..Len(stack) : stack[k] <= MaxValue
    /\ UNCHANGED <<source_lines, line_no, nodes, scopes, frames, error, output,
                   max_slot, conditional_count, level, pc>>
    /\ IF ip > Len(output) \/ Len(stack) < Takes(output[ip].op)
       THEN phase' = "halted" /\ UNCHANGED <<stack, ip>>
       ELSE LET i   == output[ip]
                n   == Len(stack)
                top == stack[n]
            IN  /\ phase' = phase
                /\ stack' =
                     CASE i.op = "pushint" -> Append(stack, i.arg)
                       [] i.op = "dup"     -> Append(stack, top)
                       [] i.op = "pop"     -> Pop(stack)
                       [] i.op = "=="      ->
                            Append(SubSeq(stack, 1, n - 2),
                                   IF stack[n - 1] = top THEN 1 ELSE 0)
                       [] i.op = "+"       ->
                            Append(SubSeq(stack, 1, n - 2),
                                   stack[n - 1] + top)
                       [] i.op \in {"bnz", "bz"} -> Pop(stack)
                       [] OTHER            -> stack
                /\ ip' =
                     CASE i.op = "b" -> LabelIndex(i.arg)
                       [] i.op = "bnz" ->
                            IF top # 0 THEN LabelIndex(i.arg) ELSE ip + 1
                       [] i.op = "bz" ->
                            IF top = 0 THEN LabelIndex(i.arg) ELSE ip + 1
                       [] OTHER -> ip + 1

LoopLines == {"for _ in 0:2:", "for _ in 1:1:", "# body", "end"}

NextLoop ==
    \/ parse
    \/ \E raw \in LoopLines : line_no < MaxLoopLines /\ Program_consume(raw)
    \/ \E raw \in LoopLines : line_no < MaxLoopLines /\ ForStatement_consume(raw)
    \/ Program_consume_eof
    \/ Composite_consume_eof
    \/ Comment_process
    \/ ForStatement_visit_implicit_counter
    \/ ForStatement_visit_implicit_counter_end
    \/ compile_return
    \/ run
    \/ execute

SpecLoop == Init /\ [][NextLoop]_vars

\* an anonymous-counter loop whose body holds comments only
NeutralBody(f) ==
    /\ nodes[f].kind = "ForStatement"
    /\ nodes[f].var = "_"
    /\ \A c \in 1..Len(nodes) :
          nodes[c].parent = f => nodes[c].kind \in {"Comment", "End"}

\* nothing but comments comes before node f: the run enters it with the
\* empty stack it starts with
EnteredEmpty(f) == \A j \in 2..(f - 1) : nodes[j].kind = "Comment"

\* C2: for an anonymous-counter loop with a stack-neutral body, the run
\* of the output reaches the first line after the loop's end label with the
\* stack as deep as it was before the loop's start expression was pushed.
C2_AnonymousLoopStackNeutral ==
    phase = "run" =>
        \A f \in 1..Len(nodes) :
            (NeutralBody(f) /\ EnteredEmpty(f)
               /\ ip = LabelIndex(nodes[f].end_label) + 1)
            => Len(stack) = 0

(* ------------------------------------------------------------------ *)
(* Failures and the artifacts handed back (under Spec)                  *)
(* ------------------------------------------------------------------ *)
\* the run ended with an exception raised by the generation pass
GenerationFailed == phase = "error" /\ pc >= 2

\* C11: every failure raised while generating code is a CompileError that
\* carries the line number of the node it was detected in (the kind
\* compile_program catches, prints and exits on).
C11_GenerationFailuresAreCompileErrors ==
    GenerationFailed =>
        /\ error.kind = "CompileError"
        /\ error.line_no = nodes[pc].line_no

\* the step is taken by the parse pass inside a composite statement and
\* consumes no line: the input has ended before the composite's `end`
InputEndsInComposite ==
    /\ phase = "parse"
    /\ nodes[Top].kind # "Program"
    /\ line_no' = line_no

\* C12: when the input ends inside a composite construct the parse pass
\* ends with a ParseError that carries a source line number.
C12_EofInCompositeIsParseError ==
    [][ InputEndsInComposite =>
            /\ phase' = "error"
            /\ error'.kind = "ParseError"
            /\ error'.line_no >= 1 ]_vars

\* TealishCompiler.source_map: write() adds the key current_output_line for
\* every line it appends to output
source_map == [i \in 1..Len(output) |-> output[i].src]

\* TealishCompiler.current_output_line
current_output_line == Len(output) + 1

\* compile_program: teal = compiler.output + [""], the full text returned
\* (and printed line by line, with source_map[i + 1], in debug mode)
teal == Append(output, L("", "", ""))

\* C13: the source map returned with the full text has an entry for every
\* line of the text: its key set is 1..N for a text of N lines.
C13_SourceMapCoversText ==
    /\ DOMAIN source_map = 1..Len(output)
    /\ current_output_line = Len(output) + 1
    /\ phase = "done" => DOMAIN source_map = 1..Len(teal)

(* ------------------------------------------------------------------ *)
(* Specification SpecFunc: subroutine definitions                       *)
(* ------------------------------------------------------------------ *)
FuncLines ==
    {"func f():", "func g(a: int, b: bytes):", "return", "# c", "int x", "end"}

NextFunc ==
    \/ parse
    \/ \E raw \in FuncLines : line_no < MaxFuncLines /\ Program_consume(raw)
    \/ \E raw \in FuncLines : line_no < MaxFuncLines /\ Func_consume(raw)
    \/ Program_consume_eof
    \/ Composite_consume_eof
    \/ IntDeclaration_process
    \/ Comment_process
    \/ Return_process
    \/ Func_visit
    \/ Func_visit_end
    \/ compile_return

SpecFunc == Init /\ [][NextFunc]_vars

\* the step consumes the `end` of a func whose last child is not a return
\* statement (a body with no child included)
FuncBodyLacksReturn ==
    /\ phase = "parse"
    /\ nodes[Top].kind = "Func"
    /\ line_no' = line_no + 1
    /\ StrStrip(source_lines'[line_no']) = "end"
    /\ \/ Children(nodes, Top) = {}
       \/ nodes[SetMax(Children(nodes, Top))].kind # "Return"

\* C19: a subroutine whose body does not end with a return statement as
\* its last child, the empty body included, is rejected with a ParseError.
C19_FuncWithoutReturnIsParseError ==
    [][ FuncBodyLacksReturn =>
            /\ phase' = "error"
            /\ error'.kind = "ParseError" ]_vars

\* C20: a func with arguments a1..an that generation enters without
\* failing emits its comment, its entry label and then exactly n stores,
\* for an, ..., a1 in that order, into the slots max_slot+1, ..,
\* max_slot+n, bound in the func's own scope and above every slot
\* allocated before.
C20_FuncEntryStoresArgsReversed ==
    [][ (Visiting("Func") /\ phase' = "compile") =>
          LET n    == nodes[pc]
              k    == Len(n.args)
              base == Len(output)
          IN  /\ Len(output') = base + 2 + k
              /\ output'[base + 2].op = "label"
              /\ output'[base + 2].arg = n.label
              /\ \A j \in 1..k :
                    LET a == n.args[k + 1 - j] IN
                    /\ output'[base + 2 + j].op = "store"
                    /\ output'[base + 2 + j].arg = max_slot + j
                    /\ output'[base + 2 + j].note = a[1]
                    /\ a[1] \notin DOMAIN scopes[n.current_scope].slots
                    /\ scopes'[n.current_scope].slots[a[1]] = <<max_slot + j, a[2]>>
                    /\ \A s \in AllocatedSlots : max_slot + j > s
              /\ \A t \in 1..Len(scopes) :
                    t # n.current_scope => scopes'[t].slots = scopes[t].slots
      ]_vars

\* the entry of a func of two arguments has been emitted after a slot was
\* given to a variable outside it
C20_Witness ==
    \E i \in 1..Len(output) :
        /\ i + 2 <= Len(output)
        /\ output[i].op = "label"
        /\ output[i + 1].op = "store" /\ output[i + 1].note = "b"
        /\ output[i + 2].op = "store" /\ output[i + 2].note = "a"
        /\ output[i + 2].arg > output[i + 1].arg
        /\ "x" \in DOMAIN scopes[1].slots


(* ------------------------------------------------------------------ *)
(* Specification SpecPragma: the version line in every place            *)
(* ------------------------------------------------------------------ *)
PragmaLines ==
    {"#pragma version 6", "teal:", "inner_txn:", "block b:", "Fee: 0", "end"}

NextPragma ==
    \/ parse
    \/ \E raw \in PragmaLines : line_no < MaxPragmaLines /\ Program_consume(raw)
    \/ \E raw \in PragmaLines : line_no < MaxPragmaLines /\ Block_consume(raw)
    \/ \E raw \in PragmaLines : line_no < MaxPragmaLines /\ Teal_consume(raw)
    \/ \E raw \in PragmaLines : line_no < MaxPragmaLines /\ InnerTxn_consume(raw)
    \/ Program_consume_eof
    \/ Composite_consume_eof
    \/ TealVersion_process
    \/ Block_process
    \/ Block_visit_end
    \/ Teal_visit
    \/ TealLine_process
    \/ Teal_visit_end
    \/ InnerGroup_visit
    \/ InnerTxn_visit
    \/ InnerGroup_visit_end
    \/ compile_return

SpecPragma == Init /\ [][NextPragma]_vars

\* a step of the parse pass that consumes a version line as another line
\* than the first
PragmaConsumedLate ==
    /\ phase = "parse"
    /\ line_no' = line_no + 1
    /\ line_no' # 1
    /\ StartsWith(StrStrip(source_lines'[line_no']), "#pragma")

\* C14: a `#pragma` line at any line number but 1, in any context (top
\* level, a block, a teal block, the fields of an inner transaction), makes
\* the parse pass fail
C14_PragmaOnlyOnFirstLine ==
    [][ PragmaConsumedLate => /\ phase' = "error"
                              /\ error'.kind = "ParseError" ]_vars


(* ------------------------------------------------------------------ *)
(* Specification SpecTxn: the fields of an inner transaction            *)
(* ------------------------------------------------------------------ *)
TxnLines ==
    {"inner_txn:", "end", "Fee: 0", "Note: 5", "Accounts[0]: 1", "Accounts[1]: 2",
     "Apps[0]: 3"}

NextTxn ==
    \/ parse
    \/ \E raw \in TxnLines : line_no < MaxTxnLines /\ Program_consume(raw)
    \/ \E raw \in TxnLines : line_no < MaxTxnLines /\ InnerTxn_consume(raw)
    \/ Program_consume_eof
    \/ Composite_consume_eof
    \/ InnerGroup_visit
    \/ InnerTxn_visit
    \/ InnerGroup_visit_end
    \/ compile_return

SpecTxn == Init /\ [][NextTxn]_vars

\* the setters of the transaction under generation, in source order
Setters == nodes[pc].nodes

HasIndex(k) == Setters[k].index # ""

\* how many setters with an index name the field of setter k before it
EarlierOfField(k) ==
    Cardinality({m \in 1..(k - 1) :
                    HasIndex(m) /\ Setters[m].field_name = Setters[k].field_name})

\* every setter with an index is the next of its field: 0, 1, 2, ...
IndicesInOrder ==
    \A k \in 1..Len(Setters) :
        HasIndex(k) => ParseInt(Setters[k].index) = EarlierOfField(k)

\* the first setter with an index that names the field of setter k
FirstOfField(k) ==
    CHOOSE m \in 1..Len(Setters) :
        /\ HasIndex(m) /\ Setters[m].field_name = Setters[k].field_name
        /\ EarlierOfField(m) = 0

\* setter a is emitted before setter b
EmittedBefore(a, b) ==
    IF ~HasIndex(a) THEN ~HasIndex(b) => a < b
    ELSE /\ HasIndex(b)
         /\ \/ FirstOfField(a) < FirstOfField(b)
            \/ /\ FirstOfField(a) = FirstOfField(b)
               /\ ParseInt(Setters[a].index) < ParseInt(Setters[b].index)

\* the place of setter k among the itxn_field lines
PlaceOf(k) == 1 + Cardinality({m \in 1..Len(Setters) : m # k /\ EmittedBefore(m, k)})

\* the itxn_field lines written by the step, each with the value pushed
\* before it
FieldLines ==
    LET new == SubSeq(output', Len(output) + 1, Len(output'))
        at  == {j \in 1..Len(new) : new[j].op = "itxn_field"}
        nth(i) == CHOOSE j \in at : Cardinality({o \in at : o < j}) = i - 1
    IN  [i \in 1..Cardinality(at) |->
            [field_name |-> new[nth(i)].arg, value |-> new[nth(i) - 1].arg]]

\* C15: the setters without an index are emitted first, in source order,
\* then those with an index, field after field in the order of the fields'
\* first indexed setters and by ascending index within a field, every
\* setter exactly once; a setter whose index is not the next of its field
\* makes compilation fail
C15_InnerTxnFieldOrder ==
    [][ Visiting("InnerTxn") =>
          IF IndicesInOrder
          THEN /\ phase' = "compile"
               /\ Len(FieldLines) = Len(Setters)
               /\ \A k \in 1..Len(Setters) :
                     FieldLines[PlaceOf(k)] =
                         [field_name |-> Setters[k].field_name,
                          value      |-> ParseInt(Setters[k].expression)]
          ELSE phase' = "error" ]_vars

\* a transaction whose fields were given out of the order of emission
C15_Witness ==
    /\ phase = "done"
    /\ source_lines = <<"inner_txn:", "Accounts[0]: 1", "Apps[0]: 3", "Fee: 0",
                        "Accounts[1]: 2", "end">>
    /\ LET f == SelectSeq(output, LAMBDA l : l.op = "itxn_field") IN
       /\ Len(f) = 4
       /\ f[1].arg = "Fee" /\ f[2].arg = "Accounts" /\ f[3].arg = "Accounts"
       /\ f[4].arg = "Apps"


(* ------------------------------------------------------------------ *)
(* Specification SpecSwitch: the lowering of switch                     *)
(* ------------------------------------------------------------------ *)
SwitchLines == {"switch 7:", "0: a", "1: a", "else: a", "block a:", "end"}

NextSwitch ==
    \/ parse
    \/ \E raw \in SwitchLines : line_no < MaxSwitchLines /\ Program_consume(raw)
    \/ \E raw \in SwitchLines : line_no < MaxSwitchLines /\ Block_consume(raw)
    \/ \E raw \in SwitchLines : line_no < MaxSwitchLines /\ Switch_consume(raw)
    \/ Program_consume_eof
    \/ Composite_consume_eof
    \/ Block_process
    \/ Block_visit_end
    \/ Switch_visit
    \/ compile_return

SpecSwitch == Init /\ [][NextSwitch]_vars

\* the names of blocks an option or the else of the switch under generation
\* gives
SwitchTargets ==
    {nodes[pc].options[k].block_name : k \in 1..Len(nodes[pc].options)}
        \cup {nodes[pc].else_[k].block_name : k \in 1..Len(nodes[pc].else_)}

\* the label of the block a name of the switch under generation stands for
TargetLabel(name) ==
    nodes[get_block(scopes, nodes[pc].current_scope, name).node].label

\* C16: the step that lowers a switch with options o1..on writes, for each
\* oi in source order, the code of the subject, the code of oi's value,
\* `==` and `bnz` to the label of oi's block, and after the last option a
\* branch to the label of the else block, or `err` when there is no else; a
\* name that is no block makes compilation fail
C16_SwitchLowering ==
    [][ Visiting("Switch") =>
          LET n   == nodes[pc]
              cnt == Len(n.options)
              new == SubSeq(output', Len(output) + 1, Len(output'))
          IN  IF \A name \in SwitchTargets :
                    get_block(scopes, n.current_scope, name).found
              THEN /\ phase' = "compile"
                   /\ Len(new) = 4 * cnt + 2
                   /\ new[1].op = "//"
                   /\ \A i \in 1..cnt :
                         /\ new[4 * i - 2].op = "pushint"
                         /\ new[4 * i - 2].arg = ParseInt(n.expression)
                         /\ new[4 * i - 1].op = "pushint"
                         /\ new[4 * i - 1].arg = ParseInt(n.options[i].expression)
                         /\ new[4 * i].op = "=="
                         /\ new[4 * i + 1].op = "bnz"
                         /\ new[4 * i + 1].arg = TargetLabel(n.options[i].block_name)
                   /\ IF n.else_ = << >>
                      THEN new[4 * cnt + 2].op = "err"
                      ELSE /\ new[4 * cnt + 2].op = "b"
                           /\ new[4 * cnt + 2].arg = TargetLabel(n.else_[1].block_name)
              ELSE phase' = "error" ]_vars

\* a switch of two options and an else, lowered
C16_Witness ==
    /\ phase = "done"
    /\ source_lines = <<"switch 7:", "0: a", "1: a", "else: a", "end", "block a:", "end">>
    /\ Len(output) >= 10
    /\ output[10].op = "b" /\ output[10].note = "else"
    /\ Cardinality({j \in 1..Len(output) : output[j].op = "bnz"}) = 2


(* ------------------------------------------------------------------ *)
(* Specification SpecWhile: while loops and break                       *)
(* ------------------------------------------------------------------ *)
WhileLines == {"while 1:", "for _ in 0:2:", "if 1:", "break", "end"}

NextWhile ==
    \/ parse
    \/ \E raw \in WhileLines : line_no < MaxWhileLines /\ Program_consume(raw)
    \/ \E raw \in WhileLines : line_no < MaxWhileLines /\ WhileStatement_consume(raw)
    \/ \E raw \in WhileLines : line_no < MaxWhileLines /\ ForStatement_consume(raw)
    \/ \E raw \in WhileLines : line_no < MaxWhileLines /\ Clause_consume(raw)
    \/ Program_consume_eof
    \/ Composite_consume_eof
    \/ WhileStatement_visit
    \/ WhileStatement_visit_end
    \/ ForStatement_visit_implicit_counter
    \/ ForStatement_visit_implicit_counter_end
    \/ IfStatement_visit
    \/ IfThen_process
    \/ Clause_visit_end
    \/ IfStatement_visit_end
    \/ Break_process
    \/ compile_return

SpecWhile == Init /\ [][NextWhile]_vars

\* the while loops among node p and its ancestors
RECURSIVE WhilesFrom(_)
WhilesFrom(p) ==
    IF p = 0 THEN {}
    ELSE (IF nodes[p].kind = "WhileStatement" THEN {p} ELSE {})
             \cup WhilesFrom(nodes[p].parent)

\* the step reads a `break` line
BreakRead ==
    /\ phase = "parse"
    /\ line_no' = line_no + 1
    /\ StrStrip(source_lines'[line_no']) = "break"

\* the lines written for while loop w close it: the branch back to its
\* start and then its end label, defined nowhere else
LoopClosed(w, out) ==
    /\ Cardinality({j \in 1..Len(out) :
                       out[j].op = "label" /\ out[j].arg = nodes[w].end_label}) = 1
    /\ \E j \in 2..Len(out) :
          /\ out[j].op = "label" /\ out[j].arg = nodes[w].end_label
          /\ out[j - 1].op = "b" /\ out[j - 1].arg = nodes[w].start_label

\* C18: a `break` is accepted only with a while loop among its ancestors and
\* parsing fails otherwise; it is lowered to a branch to the end label of
\* the innermost while loop around it, whatever for loops, ifs and whiles lie
\* in between, and that label is defined once, after the loop's back-branch
C18_BreakLeavesNearestWhile ==
    [][ /\ BreakRead =>
             IF WhilesFrom(Top) = {}
             THEN phase' = "error" /\ error'.kind = "ParseError"
             ELSE /\ phase' = "parse"
                  /\ nodes'[Len(nodes')].kind = "Break"
        /\ Visiting("Break") =>
             /\ WhilesFrom(nodes[pc].parent) # {}
             /\ output' = Written(output,
                    <<L("//", "break", ""),
                      L("b", nodes[SetMax(WhilesFrom(nodes[pc].parent))].end_label, "")>>,
                    nodes[pc].line_no)
        /\ phase' = "done" =>
             \A w \in 1..Len(nodes) :
                 nodes[w].kind = "WhileStatement" => LoopClosed(w, output')
      ]_vars

\* a break under an if in the inner of two while loops
C18_Witness ==
    /\ phase = "done"
    /\ source_lines = <<"while 1:", "while 1:", "if 1:", "break", "end", "end", "end">>
    /\ \E j \in 2..Len(output) :
          /\ output[j].op = "b" /\ output[j].arg = "l1_end"
          /\ output[j - 1].arg = "break"


(* ------------------------------------------------------------------ *)
(* Specification SpecIf: if statements, compiled and run                *)
(* ------------------------------------------------------------------ *)
IfLines == {"if 1:", "if not 1:", "elif 1:", "elif not 1:", "else:", "# c", "end"}

NextIf ==
    \/ parse
    \/ \E raw \in IfLines : line_no < MaxIfLines /\ Program_consume(raw)
    \/ \E raw \in IfLines : line_no < MaxIfLines /\ Clause_consume(raw)
    \/ Program_consume_eof
    \/ Composite_consume_eof
    \/ Comment_process
    \/ IfStatement_visit
    \/ IfThen_process
    \/ Elif_process
    \/ Else_process
    \/ Clause_visit_end
    \/ IfStatement_visit_end
    \/ compile_return
    \/ run
    \/ execute

SpecIf == Init /\ [][NextIf]_vars

IfStatements == {s \in 1..Len(nodes) : nodes[s].kind = "IfStatement"}

\* the clauses of statement s, in source order the if, the elifs, the else
Clauses(s) == Children(nodes, s)

\* where the code of clause c stands in the output: its guard (the line
\* that branches when the clause is not taken; the else has none), the
\* first line of its body, and the last line before the next clause's
\* label or the end label
BodyFirst(c) ==
    CASE nodes[c].kind = "IfThen" ->
             CHOOSE j \in 1..Len(output) :
                 /\ output[j].op = "//" /\ output[j].arg = "then:"
                 /\ output[j].src = nodes[c].line_no
      [] nodes[c].kind = "Elif" -> LabelIndex(nodes[c].label) + 4
      [] nodes[c].kind = "Else" -> LabelIndex(nodes[c].label) + 1

GuardIndex(c) == BodyFirst(c) - 1

BodyLast(c) ==
    IF NextClause(c) # 0 THEN LabelIndex(nodes[NextClause(c)].label) - 1
    ELSE LabelIndex(nodes[nodes[c].parent].end_label) - 1

Body(c) == BodyFirst(c)..BodyLast(c)

EndIndex(s) == LabelIndex(nodes[s].end_label)

\* the label a clause that is not taken hands over to
Onward(c) ==
    IF \E d \in Clauses(nodes[c].parent) : d > c
    THEN nodes[SetMin({d \in Clauses(nodes[c].parent) : d > c})].label
    ELSE nodes[nodes[c].parent].end_label

\* the shape of the code of statement s
IfLowered(s) ==
    /\ Cardinality(LabelDefs(nodes[s].end_label)) = 1
    /\ \A c \in Clauses(s) :
          /\ nodes[c].kind # "Else" =>
                /\ output[GuardIndex(c)].op =
                      (IF (IF nodes[c].kind = "Elif" THEN nodes[c].modifier
                           ELSE nodes[s].modifier) = "not" THEN "bnz" ELSE "bz")
                /\ output[GuardIndex(c)].arg = Onward(c)
          /\ (\E d \in Clauses(s) : d > c) =>
                /\ output[BodyLast(c)].op = "b"
                /\ output[BodyLast(c)].arg = nodes[s].end_label

\* C17: in the compiled program the guard of every clause branches, when
\* the clause is not taken, to the label of the next clause and that of the
\* last clause to the end label; a body followed by another clause ends in
\* a branch to the end label, which is defined once.  In a run the program
\* only moves forward; control leaves the code of a clause's body only for
\* the end label of its statement, so at most one body of a statement runs
\* and the end label comes after it; and when there is an else the end
\* label is reached from a body only, so exactly one runs
C17_IfLowering ==
    [][ /\ phase = "done" => \A s \in IfStatements : IfLowered(s)
        /\ (phase = "run" /\ phase' = "run" /\ ip <= Len(output)) =>
             /\ ip' > ip
             /\ \A s \in IfStatements : \A c \in Clauses(s) :
                   ip \in Body(c) => ip' \in Body(c) \/ ip' = EndIndex(s)
             /\ \A s \in IfStatements :
                   (ip' = EndIndex(s) /\ \E c \in Clauses(s) : nodes[c].kind = "Else")
                       => \E c \in Clauses(s) : ip \in Body(c)
      ]_vars

\* the run of an if with an elif and an else stands in the body of the elif
C17_Witness ==
    /\ phase = "run"
    /\ source_lines = <<"if not 1:", "elif 1:", "# c", "else:", "# c", "end">>
    /\ ip <= Len(output)
    /\ output[ip].op = "//" /\ output[ip].src = 3


(* ------------------------------------------------------------------ *)
(* Specification SpecReturn: results of a func and their targets        *)
(* ------------------------------------------------------------------ *)
ReturnLines ==
    {"int a", "a, _ = f()", "_, a = f()", "a = f()", "func f() int, int:",
     "return 1, 2", "end"}

NextReturn ==
    \/ parse
    \/ \E raw \in ReturnLines : line_no < MaxReturnLines /\ Program_consume(raw)
    \/ \E raw \in ReturnLines : line_no < MaxReturnLines /\ Func_consume(raw)
    \/ Program_consume_eof
    \/ Composite_consume_eof
    \/ IntDeclaration_process
    \/ Assignment_process
    \/ Return_process
    \/ Func_visit
    \/ Func_visit_end
    \/ compile_return

SpecReturn == Init /\ [][NextReturn]_vars

\* the expressions of the return statement under generation, as written
Returned == LET parts == StrSplit(nodes[pc].args, ",") IN
            [i \in 1..Len(parts) |-> StrStrip(parts[i])]

\* the targets of the assignment under generation, as written
Targets == LET parts == StrSplit(nodes[pc].names, ",") IN
           [i \in 1..Len(parts) |-> StrStrip(parts[i])]

\* the lines a step has written
NewLines == SubSeq(output', Len(output) + 1, Len(output'))

\* the values on the stack after the pushes of a return, the top last, and
\* the value the i-th store or pop after the call takes off it
TakenOff(pushed, i) == pushed[Len(pushed) + 1 - i]

\* the func an assignment from a call calls
Callee == nodes[get_scope(scopes, nodes[pc].current_scope).functions
                    [CalleeName(nodes[pc])]]

GroupLines ==
    {"inner_group:", "inner_txn:", "Fee: 0", "end", "# c", "int x"}

NextGroup ==
    \/ parse
    \/ \E raw \in GroupLines : line_no < MaxGroupLines /\ Program_consume(raw)
    \/ \E raw \in GroupLines : line_no < MaxGroupLines /\ InnerGroup_consume(raw)
    \/ \E raw \in GroupLines : line_no < MaxGroupLines /\ InnerTxn_consume(raw)
    \/ Program_consume_eof
    \/ Composite_consume_eof
    \/ IntDeclaration_process
    \/ Comment_process
    \/ InnerGroup_visit
    \/ InnerTxn_visit
    \/ InnerGroup_visit_end
    \/ compile_return

SpecGroup == Init /\ [][NextGroup]_vars

\* the members of group g that are or hold a block of transaction fields
FieldBlocks(g) ==
    {c \in Children(nodes, g) :
        nodes[c].kind = "InnerTxn" \/ has_child_node(nodes, c, "InnerTxn")}

\* the output lines InnerGroup.visit itself wrote for group g with opcode op
GroupMarks(g, op) ==
    {i \in 1..Len(output) : output[i].op = op /\ output[i].src = nodes[g].line_no}

\* C25: in the lowering of a group with a block of fields, itxn_begin comes
\* first and itxn_submit last, there is one itxn_next less than there are
\* members with a block of fields, and a block of fields is lowered between
\* every itxn_next and the itxn_submit.
C25_NextBetweenFieldBlocks ==
    phase = "done" =>
        \A g \in {n \in 1..Len(nodes) : nodes[n].kind = "InnerGroup"} :
            FieldBlocks(g) # {} =>
                /\ Cardinality(GroupMarks(g, "itxn_begin")) = 1
                /\ Cardinality(GroupMarks(g, "itxn_submit")) = 1
                /\ \A b \in GroupMarks(g, "itxn_begin") :
                   \A s \in GroupMarks(g, "itxn_submit") :
                   \A x \in GroupMarks(g, "itxn_next") :
                      /\ b < x /\ x < s
                      /\ \E k \in (x + 1)..(s - 1) : output[k].op = "itxn_field"
                /\ Cardinality(GroupMarks(g, "itxn_next")) =
                      Cardinality(FieldBlocks(g)) - 1


(* ------------------------------------------------------------------ *)
(* Specification SpecParse: the parse pass over conditionals and loops, *)
(* with names that begin like the words closing a clause                *)
(* ------------------------------------------------------------------ *)
ParseLines ==
    {"if 1:", "elif 2:", "else:", "end", "ending = 1", "int ending", "while 1:"}

NextParse ==
    \/ parse
    \/ \E raw \in ParseLines : line_no < MaxParseLines /\ Program_consume(raw)
    \/ \E raw \in ParseLines : line_no < MaxParseLines /\ Clause_consume(raw)
    \/ \E raw \in ParseLines : line_no < MaxParseLines /\ WhileStatement_consume(raw)
    \/ IfStatement_consume_spin
    \/ Program_consume_eof
    \/ Composite_consume_eof

SpecParse == Init /\ [][NextParse]_vars

\* C26: every turn of a consume loop of the parse pass consumes a line or
\* ends the pass, with the tree or with an error, so that the pass ends on
\* every finite text; also at a line after the body of a clause that
\* begins with end, elif or else: and is none of the three.
C26_ParseTurnConsumesOrLeaves ==
    [][ (phase = "parse" \/ phase = "spin") =>
            (line_no' > line_no \/ phase' \in {"compile", "error"})
      ]_vars

====
